---- MODULE Spec2Model ----
(***************************************************************************)
(* The sync engine of the tracker, in its two variants: the screen tracker *)
(* (src/app.js) and the book tracker (src/unnamed/part_001).  One or two   *)
(* browser clients share a remote gist.  Every handler runs to its first   *)
(* await in one step; the continuation after a network call is a step of   *)
(* its own.  The variable `variant` is fixed by Init and selects which of  *)
(* the two programs every client runs.                                     *)
(***************************************************************************)
EXTENDS Integers, Sequences, FiniteSets, TLC

\* ------------------------------------------------------------------ bounds
MaxTime == 4
MaxIds == 1
MaxItems == 2
MaxGists == 2
MaxTasks == 2

\* The focus handler's staleness threshold (5 * 60 * 1000 ms), in clock ticks.
FiveMinutes == 1

Clients == {"A", "B"}
Ids == 1..MaxIds
Slots == 1..MaxTasks
NoGist == 0

VARIABLES
    variant,        \* "screen" (app.js) or "book" (part_001)
    now,            \* Date.now(), in ticks
    gists,          \* the remote documents, by gist id
    nextGist,       \* the id the next POST /gists returns
    items,          \* state.screens / state.books of each client
    settings,       \* state.settings of each client: gistId, apiToken
    isSyncing,      \* state.isSyncing of each client
    lastSyncTime,   \* state.lastSyncTime of each client, 0 for null
    tasks,          \* the suspended async calls of each client
    event,          \* what the last step did and the message it put in the
                    \* syncStatus element, "" for none (observation only)
    scen,           \* the phase of the two-client deletion scenario (observation only)
    input,          \* the argument of a function applied on its own
    op,             \* the function applied to it, "none" before
    out             \* what the function returned

\* The state of the clients and of the remote store.
sysVars == <<variant, now, gists, nextGist, items, settings, isSyncing,
             lastSyncTime, tasks, event, scen>>

\* The application of one function of the program to one argument.
fnVars == <<input, op, out>>

vars == <<sysVars, fnVars>>

\* ------------------------------------------------------------ sequences
RECURSIVE IndexOfId(_, _, _)
IndexOfId(seq, id, i) ==
    IF i > Len(seq) THEN 0
    ELSE IF seq[i].id = id THEN i
    ELSE IndexOfId(seq, id, i + 1)

IdsOf(seq) == { seq[i].id : i \in 1..Len(seq) }

HasId(seq, id) == \E i \in 1..Len(seq) : seq[i].id = id

Find(seq, id) == seq[IndexOfId(seq, id, 1)]

RemoveAt(seq, i) == [j \in 1..(Len(seq) - 1) |-> IF j < i THEN seq[j] ELSE seq[j + 1]]

Max2(a, b) == IF a >= b THEN a ELSE b

\* ---------------------------------------------------------------- items
\* An item: id, the external key (tmdbId / isbn, 0 when absent), the three
\* timestamps (0 for null / '') and whether a rating tag is set.
NewItem(id, key) ==
    [id |-> id, key |-> key, addedAt |-> 0, startedAt |-> 0, finishedAt |-> 0,
     rated |-> FALSE]

\* app.js:110  setListTimestamps(screen, listStatus)
Screen_setListTimestamps(s, listStatus, t) ==
    CASE listStatus = "to_watch" ->
            [s EXCEPT !.addedAt = t, !.finishedAt = 0]
      [] listStatus = "watching" ->
            [s EXCEPT !.finishedAt = 0,
                      !.addedAt = IF s.addedAt = 0 THEN t ELSE s.addedAt]
      [] listStatus = "watched" ->
            [s EXCEPT !.finishedAt = t,
                      !.addedAt = IF s.addedAt = 0 THEN t ELSE s.addedAt]
      [] OTHER -> s

\* part_001:49  setListTimestamps(book, listStatus)
Book_setListTimestamps(b, listStatus, t) ==
    CASE listStatus = "to_read" ->
            [b EXCEPT !.addedAt = t, !.startedAt = 0, !.finishedAt = 0]
      [] listStatus = "reading" ->
            [b EXCEPT !.startedAt = t, !.finishedAt = 0,
                      !.addedAt = IF b.addedAt = 0 \/ b.addedAt > t THEN t ELSE b.addedAt]
      [] listStatus = "read" ->
            LET st == IF b.startedAt = 0 \/ b.startedAt > t THEN t ELSE b.startedAt
            IN  [b EXCEPT !.finishedAt = t, !.startedAt = st,
                          !.addedAt = IF b.addedAt = 0 \/ b.addedAt > st THEN st ELSE b.addedAt]
      [] OTHER -> b

\* --------------------------------------------------------------- codec
\* A row of the remote table: the columns the sync logic reads.
Row(addedAt, startedAt, finishedAt, key, rated) ==
    [addedAt |-> addedAt, startedAt |-> startedAt, finishedAt |-> finishedAt,
     key |-> key, rated |-> rated]

\* app.js:1739  screensToTSV: one row per screen; the table has no startedAt column.
screensToTSV(screens) ==
    [i \in 1..Len(screens) |->
        Row(screens[i].addedAt, 0, screens[i].finishedAt, screens[i].key, screens[i].rated)]

\* app.js:1762  tsvToScreens: the id is rebuilt from the tmdbID column, or made
\* up from the row number when that column is empty.
tsvToScreens(rows) ==
    [i \in 1..Len(rows) |->
        [id |-> IF rows[i].key # 0 THEN <<"tmdb", rows[i].key>> ELSE <<"manual", i>>,
         key |-> rows[i].key,
         addedAt |-> rows[i].addedAt, startedAt |-> 0,
         finishedAt |-> rows[i].finishedAt, rated |-> rows[i].rated]]

\* part_001:1635  booksToTSV: only books that have an ISBN are emitted.
RECURSIVE booksToTSV(_)
booksToTSV(books) ==
    IF books = <<>> THEN <<>>
    ELSE LET b == Head(books)
         IN  (IF b.key # 0
              THEN <<Row(b.addedAt, b.startedAt, b.finishedAt, b.key, b.rated)>>
              ELSE <<>>) \o booksToTSV(Tail(books))

\* part_001:1753  the timestamp integrity checks of tsvToBooks
RepairTimestamps(r) ==
    LET a1 == IF r.startedAt # 0 /\ (r.addedAt = 0 \/ r.addedAt > r.startedAt)
              THEN r.startedAt ELSE r.addedAt
        s2 == IF r.finishedAt # 0 /\ (r.startedAt = 0 \/ r.startedAt > r.finishedAt)
              THEN r.finishedAt ELSE r.startedAt
        a2 == IF r.finishedAt # 0 /\ (a1 = 0 \/ a1 > s2) THEN s2 ELSE a1
    IN  [r EXCEPT !.addedAt = a2, !.startedAt = s2]

\* part_001:1668  tsvToBooks: rows without ISBN are skipped, the id is the ISBN.
RECURSIVE tsvToBooks(_)
tsvToBooks(rows) ==
    IF rows = <<>> THEN <<>>
    ELSE LET r == RepairTimestamps(Head(rows))
         IN  (IF r.key # 0
              THEN <<[id |-> <<"isbn", r.key>>, key |-> r.key,
                      addedAt |-> r.addedAt, startedAt |-> r.startedAt,
                      finishedAt |-> r.finishedAt, rated |-> r.rated]>>
              ELSE <<>>) \o tsvToBooks(Tail(rows))

\* --------------------------------------------------------------- merge
\* app.js:1586  getLatestTimestamp: the latest of the set timestamps, 0 for null.
getLatestTimestamp(s) == Max2(s.addedAt, Max2(s.startedAt, s.finishedAt))

\* Map.prototype.set on an insertion-ordered map held as a sequence.
MapSet(m, it) ==
    IF HasId(m, it.id) THEN [m EXCEPT ![IndexOfId(m, it.id, 1)] = it]
    ELSE Append(m, it)

RECURSIVE MapOfLocal(_, _)
MapOfLocal(m, localScreens) ==
    IF localScreens = <<>> THEN m
    ELSE MapOfLocal(MapSet(m, Head(localScreens)), Tail(localScreens))

\* app.js:1613  the condition under which the remote copy replaces the local one
RemoteIsNewer(localScreen, remoteScreen) ==
    LET localLatest == getLatestTimestamp(localScreen)
        remoteLatest == getLatestTimestamp(remoteScreen)
    IN  remoteLatest # 0 /\ (localLatest = 0 \/ remoteLatest > localLatest)

RECURSIVE MergeRemote(_, _)
MergeRemote(m, remoteScreens) ==
    IF remoteScreens = <<>> THEN m
    ELSE LET r == Head(remoteScreens)
             next == IF ~HasId(m, r.id) THEN Append(m, r)
                     ELSE IF RemoteIsNewer(Find(m, r.id), r) THEN MapSet(m, r)
                     ELSE m
         IN  MergeRemote(next, Tail(remoteScreens))

\* app.js:1593  mergeScreens(localScreens, remoteScreens)
mergeScreens(localScreens, remoteScreens) ==
    MergeRemote(MapOfLocal(<<>>, localScreens), remoteScreens)

\* ----------------------------------------------------------- remote store
\* A gist: whether it exists, whether it holds the table file, whether the
\* file's header is in the canonical column order, and the rows.
Doc(file, canon, rows) == [exists |-> TRUE, file |-> file, canon |-> canon, rows |-> rows]

NoDoc == [exists |-> FALSE, file |-> FALSE, canon |-> TRUE, rows |-> <<>>]

\* ------------------------------------------------------------- tasks
Idle == [pc |-> "idle", kind |-> "none", manual |-> FALSE, gid |-> NoGist, body |-> <<>>]

Task(pc, kind, manual, gid, body) ==
    [pc |-> pc, kind |-> kind, manual |-> manual, gid |-> gid, body |-> body]

HasFreeSlot(c) == \E s \in Slots : tasks[c][s].pc = "idle"

FreeSlot(c) == CHOOSE s \in Slots :
    /\ tasks[c][s].pc = "idle"
    /\ \A t \in Slots : t < s => tasks[c][t].pc # "idle"

\* The number of sync operations of client c between their first network call
\* and their completion.
InFlight(c) == Cardinality({ s \in Slots : tasks[c][s].kind \in {"sync", "push"} })

\* What a call that may start a sync operation does to its client: the
\* collection it leaves, the task it suspends (Idle for none), the flag, the
\* status message it shows ("" for none) and what happened.
Effect(its, task, syncing, status, tags) ==
    [items |-> its, task |-> task, syncing |-> syncing, status |-> status, tags |-> tags]

\* A faulty guard, which lets every request start an operation.
SyncGuard_never(c) == FALSE

\* app.js:1632 / part_001:1992 / part_001:2067   if (state.isSyncing) return
SyncGuard(c) == isSyncing[c]

\* app.js:1624-1640 and, with no gist id configured, on to the POST of 1705:
\* no await lies in between.
Screen_syncWithGitHub(c, showFeedback, its) ==
    IF ~settings[c].apiToken
    THEN Effect(its, Idle, isSyncing[c],
                IF showFeedback THEN "TokenMissing" ELSE "", {"notoken"})
    ELSE IF SyncGuard(c)
    THEN Effect(its, Idle, isSyncing[c],
                IF showFeedback THEN "InProgress" ELSE "", {"dropped"})
    ELSE IF settings[c].gistId # NoGist
    THEN Effect(its, Task("fetch", "sync", showFeedback, settings[c].gistId, <<>>), TRUE,
                IF showFeedback THEN "Syncing" ELSE "", {"started"})
    ELSE LET mergedScreens == mergeScreens(its, <<>>)
         IN  Effect(mergedScreens,
                    Task("write", "sync", showFeedback, NoGist, screensToTSV(mergedScreens)),
                    TRUE, IF showFeedback THEN "Syncing" ELSE "",
                    {"started", "installed"})

\* part_001:1991-2017  syncWithGitHub up to its first network call
Book_syncWithGitHub(c, manualSync, its) ==
    IF SyncGuard(c)
    THEN Effect(its, Idle, isSyncing[c], "", {"dropped"})
    ELSE IF ~settings[c].apiToken
    THEN Effect(its, Idle, isSyncing[c],
                IF manualSync THEN "TokenMissing" ELSE "", {"notoken"})
    ELSE IF settings[c].gistId = NoGist
    THEN Effect(its, Task("create", "sync", manualSync, NoGist, booksToTSV(its)), TRUE,
                IF manualSync THEN "Syncing" ELSE "", {"started"})
    ELSE Effect(its, Task("fetch", "sync", manualSync, settings[c].gistId, <<>>), TRUE,
                IF manualSync THEN "Syncing" ELSE "", {"started"})

\* part_001:2062-2072  pushToGitHub up to its network call
pushToGitHub(c, its) ==
    IF ~settings[c].apiToken \/ settings[c].gistId = NoGist
    THEN Effect(its, Idle, isSyncing[c], "", {"unconfigured"})
    ELSE IF SyncGuard(c)
    THEN Effect(its, Idle, isSyncing[c], "", {"dropped"})
    ELSE Effect(its, Task("push", "push", FALSE, settings[c].gistId, booksToTSV(its)), TRUE,
                "", {"started"})

\* app.js:1464 / part_001:2153  saveToLocalStorage: the cache write, then the
\* variant's sync call.
saveToLocalStorage(c, its) ==
    IF variant = "screen" THEN Screen_syncWithGitHub(c, FALSE, its)
    ELSE pushToGitHub(c, its)

\* The sync call behind the Sync Now button and the focus handler.
syncWithGitHub(c, manual, its) ==
    IF variant = "screen" THEN Screen_syncWithGitHub(c, manual, its)
    ELSE Book_syncWithGitHub(c, manual, its)

Event(c, tags, shown) == [c |-> c, tags |-> tags, shown |-> shown]

\* User events happen at distinct clock readings, each later than every reading
\* taken before it: the event that finds the clock at `now` reads Stamp.
Stamp == now + 1

\* The item both clients hold in the synced initial state.
SyncedItem ==
    [NewItem(IF variant = "screen" THEN <<"tmdb", 1>> ELSE <<"isbn", 1>>, 1) EXCEPT !.addedAt = 1]

HasKey(seq, k) == \E i \in 1..Len(seq) : seq[i].key = k

\* The rows of the document client c is configured with.
RemoteRows(c) ==
    IF settings[c].gistId = NoGist THEN <<>> ELSE gists[settings[c].gistId].rows

\* The starting point of the two-client deletion scenario for item Z, the
\* synced item: both clients hold Z, share one document that holds Z, have
\* synced at or after Z was added, and have no sync in flight.
DeletionScenarioReady ==
    /\ \A c \in Clients :
          /\ settings[c].apiToken
          /\ settings[c].gistId = settings["A"].gistId
          /\ \A s \in Slots : tasks[c][s].pc = "idle"
          /\ \E i \in 1..Len(items[c]) :
                /\ items[c][i].key = SyncedItem.key
                /\ items[c][i].addedAt <= lastSyncTime[c]
    /\ settings["A"].gistId # NoGist
    /\ HasKey(RemoteRows("A"), SyncedItem.key)

\* Both clients hold the synced item in the version the remote table has.
EditScenarioReady ==
    /\ DeletionScenarioReady
    /\ \A c \in Clients :
          /\ Len(items[c]) = 1
          /\ items[c][1] = items["A"][1]
    /\ Len(RemoteRows("A")) = 1
    /\ RemoteRows("A")[1].rated = items["A"][1].rated

\* The phase of the two-client deletion scenario after a step that did `ev`:
\* 1 A has deleted Z and its sync has started, 2 A's write has reached the
\* remote store, 3 B has started a full sync, 4 B's full sync has succeeded.
\* The phases 5 to 8 are those of the edit scenario: 5 A has changed the
\* rating of Z and its sync has started, 6 A's write has reached the remote
\* store, 7 B has started a full sync, 8 B's full sync has succeeded.
\* Any other user event, and any failure, abandons the scenario.
ScenNext(ev) ==
    LET ph == IF scen \in {4, 8} THEN 0 ELSE scen
        stepOf(c) == ev.c = c /\ "installed" \in ev.tags /\ "ok" \notin ev.tags
    IN  IF /\ ev.c = "A" /\ {"delete", "started"} \subseteq ev.tags
           /\ DeletionScenarioReady
           /\ ~HasKey(items'["A"], SyncedItem.key)
        THEN 1
        ELSE IF /\ ev.c = "A" /\ {"rating", "started"} \subseteq ev.tags
                /\ EditScenarioReady
        THEN 5
        ELSE IF ph = 5 /\ stepOf("A") THEN 5
        ELSE IF ph = 5 /\ ev.c = "A" /\ {"ok", "wrote"} \subseteq ev.tags THEN 6
        ELSE IF ph = 6 /\ ev.c = "B" /\ {"request", "started"} \subseteq ev.tags THEN 7
        ELSE IF ph = 7 /\ stepOf("B") THEN 7
        ELSE IF ph = 7 /\ ev.c = "B" /\ {"ok", "sync"} \subseteq ev.tags THEN 8
        ELSE IF ph = 1 /\ stepOf("A") THEN 1
        ELSE IF ph = 1 /\ ev.c = "A" /\ {"ok", "wrote"} \subseteq ev.tags THEN 2
        ELSE IF ph = 2 /\ ev.c = "B" /\ {"request", "started"} \subseteq ev.tags THEN 3
        ELSE IF ph = 3 /\ stepOf("B") THEN 3
        ELSE IF ph = 3 /\ ev.c = "B" /\ {"ok", "sync"} \subseteq ev.tags THEN 4
        ELSE 0

\* Every step records what it did.
Observe(ev) ==
    /\ event' = ev
    /\ scen' = ScenNext(ev)
    /\ UNCHANGED fnVars

\* A user event handled by client c, ending in `eff`.
Commit(c, eff, tags) ==
    /\ now < MaxTime
    /\ eff.task.pc # "idle" => HasFreeSlot(c)
    /\ items' = [items EXCEPT ![c] = eff.items]
    /\ tasks' = IF eff.task.pc = "idle" THEN tasks
                ELSE [tasks EXCEPT ![c][FreeSlot(c)] = eff.task]
    /\ isSyncing' = [isSyncing EXCEPT ![c] = eff.syncing]
    /\ now' = Stamp
    /\ Observe(Event(c, eff.tags \cup tags, eff.status))
    /\ UNCHANGED <<variant, gists, nextGist, settings, lastSyncTime>>

\* ------------------------------------------------------------ user events
\* The id a search result carries: `movie_<tmdbId>` / `tv_<tmdbId>` (app.js:674),
\* the Google volume id (part_001:666).
SearchId(k) == IF variant = "screen" THEN <<"tmdb", k>> ELSE <<"vol", k>>

setListTimestamps(it, listStatus, t) ==
    IF variant = "screen" THEN Screen_setListTimestamps(it, listStatus, t)
    ELSE Book_setListTimestamps(it, listStatus, t)

Statuses == IF variant = "screen" THEN {"to_watch", "watching", "watched"}
            ELSE {"to_read", "reading", "read"}

Pending == IF variant = "screen" THEN "to_watch" ELSE "to_read"

\* app.js:1138-1150 (the add button, shown for a result that is not in the
\* list) / part_001:734-755 addBookToList (which returns when the id is in the
\* list): the handler stamps the result object and suspends at the await of
\* the image cache.  A handler already suspended on the same result holds the
\* same object, so it sees the new stamp.
AddItem(c, k) ==
    /\ now < MaxTime
    /\ HasFreeSlot(c)
    /\ ~HasId(items[c], SearchId(k))
    /\ LET it == setListTimestamps(NewItem(SearchId(k), k), Pending, Stamp)
           restamped == [s \in Slots |->
                IF tasks[c][s].pc = "cache" /\ tasks[c][s].body[1].id = it.id
                THEN [tasks[c][s] EXCEPT !.body = <<it>>] ELSE tasks[c][s]]
       IN  tasks' = [tasks EXCEPT ![c] =
                [restamped EXCEPT ![FreeSlot(c)] = Task("cache", "add", FALSE, NoGist, <<it>>)]]
    /\ now' = Stamp
    /\ Observe(Event(c, {"click", "add"}, ""))
    /\ UNCHANGED <<variant, gists, nextGist, items, settings, isSyncing, lastSyncTime>>

\* app.js:1152-1158 / part_001:756-767  the image cache has settled: the
\* handler appends the item and calls saveToLocalStorage.
AddCached(c, s) ==
    /\ tasks[c][s].pc = "cache"
    /\ Len(items[c]) < MaxItems
    /\ LET eff == saveToLocalStorage(c, Append(items[c], tasks[c][s].body[1]))
       IN  /\ items' = [items EXCEPT ![c] = eff.items]
           /\ tasks' = [tasks EXCEPT ![c][s] = eff.task]
           /\ isSyncing' = [isSyncing EXCEPT ![c] = eff.syncing]
           /\ Observe(Event(c, eff.tags \cup {"mutation", "add"}, eff.status))
    /\ UNCHANGED <<variant, now, gists, nextGist, settings, lastSyncTime>>

\* app.js:1170-1184 (the delete button) / part_001:800 removeBook
DeleteItem(c, i) ==
    /\ i \in 1..Len(items[c])
    /\ i = IndexOfId(items[c], items[c][i].id, 1)
    /\ LET its == IF variant = "screen" THEN RemoveAt(items[c], i)
                  ELSE SelectSeq(items[c], LAMBDA b : b.id # items[c][i].id)
       IN  Commit(c, saveToLocalStorage(c, its), {"mutation", "delete"})

\* app.js:1186-1202 (the status pills) / part_001:815 changeBookListStatus
SetStatus(c, i, listStatus) ==
    /\ i \in 1..Len(items[c])
    /\ i = IndexOfId(items[c], items[c][i].id, 1)
    /\ listStatus \in Statuses
    /\ LET its == [items[c] EXCEPT ![i] = setListTimestamps(items[c][i], listStatus, Stamp)]
       IN  Commit(c, saveToLocalStorage(c, its), {"mutation", "status"})

\* app.js:100 updateScreenRating / part_001:827 updateBookRating: the rating
\* tag is set or cleared; no timestamp changes.
SetRating(c, i) ==
    /\ i \in 1..Len(items[c])
    /\ i = IndexOfId(items[c], items[c][i].id, 1)
    /\ LET its == [items[c] EXCEPT ![i].rated = ~items[c][i].rated]
       IN  Commit(c, saveToLocalStorage(c, its), {"mutation", "rating"})

\* app.js:505 / part_001:417  the Sync Now button
SyncNow(c) ==
    Commit(c, syncWithGitHub(c, TRUE, items[c]), {"request", "manual"})

\* app.js:513-520 / part_001:425-432  the focus handler; the startup sync of
\* init (app.js:410, part_001:323) is the same call under the same condition
\* with lastSyncTime still null.
Focus(c) ==
    /\ settings[c].apiToken /\ settings[c].gistId # NoGist
    /\ lastSyncTime[c] = 0 \/ Stamp - lastSyncTime[c] > FiveMinutes
    /\ Commit(c, syncWithGitHub(c, FALSE, items[c]), {"request", "auto"})

\* app.js:1551 / part_001:2096  saveSettings: the user enters a gist id (one
\* that was handed out, or none) and a token (or none).
saveSettings(c, gid, token) ==
    /\ now < MaxTime
    /\ gid = NoGist \/ (gid \in 1..MaxGists /\ gid < nextGist)
    /\ settings[c] # [gistId |-> gid, apiToken |-> token]
    /\ settings' = [settings EXCEPT ![c] = [gistId |-> gid, apiToken |-> token]]
    /\ now' = Stamp
    /\ Observe(Event(c, {"settings"}, "SettingsSaved"))
    /\ UNCHANGED <<variant, gists, nextGist, items, isSyncing, lastSyncTime, tasks>>

\* ------------------------------------------------------- network returns
\* A faulty finally block, which leaves the flag set.
Finally_keepsFlag(c, s, newTasks) ==
    /\ isSyncing' = isSyncing
    /\ tasks' = [newTasks EXCEPT ![c][s] = Idle]

\* The task of slot s of client c is over: the finally block clears the flag
\* (app.js:1733-1735, part_001:2056-2058, part_001:2075-2077).
Finally(c, s, newTasks) ==
    /\ isSyncing' = [isSyncing EXCEPT ![c] = FALSE]
    /\ tasks' = [newTasks EXCEPT ![c][s] = Idle]

\* app.js:1728 / part_001:2048   state.lastSyncTime = Date.now()
StampLastSync(c) == [lastSyncTime EXCEPT ![c] = now]

\* A faulty catch block, which records the time of the failed attempt.
Fail_stamping(c, s, show) ==
    /\ Finally(c, s, tasks)
    /\ Observe(Event(c, {"fail", tasks[c][s].kind}, IF show THEN "Failed" ELSE ""))
    /\ lastSyncTime' = StampLastSync(c)
    /\ UNCHANGED <<variant, now, gists, nextGist, items, settings>>

\* The catch blocks: app.js:1730-1732, part_001:2049-2055 (sync),
\* part_001:2073-2074 (push).
Fail(c, s, show) ==
    /\ Finally(c, s, tasks)
    /\ Observe(Event(c, {"fail", tasks[c][s].kind}, IF show THEN "Failed" ELSE ""))
    /\ UNCHANGED <<variant, now, gists, nextGist, items, settings, lastSyncTime>>

\* app.js:1647-1713  the GET returns; on ok or 404 the handler merges, installs
\* the merged list and sends the PATCH or POST.
Screen_FetchReturn(c, s) ==
    /\ variant = "screen"
    /\ tasks[c][s].pc = "fetch"
    /\ LET t == tasks[c][s]
           g == gists[t.gid]
       IN  \E resp \in {"ok", "notfound", "err"} :
             /\ resp = "ok" => g.exists
             /\ resp = "notfound" => ~g.exists
             /\ IF resp = "err" THEN Fail(c, s, t.manual)
                ELSE LET remoteScreens == IF resp = "ok" /\ g.file
                                          THEN tsvToScreens(g.rows) ELSE <<>>
                         gid == IF resp = "notfound" THEN NoGist ELSE settings[c].gistId
                         mergedScreens == mergeScreens(items[c], remoteScreens)
                     IN  /\ settings' = [settings EXCEPT ![c].gistId = gid]
                         /\ items' = [items EXCEPT ![c] = mergedScreens]
                         /\ tasks' = [tasks EXCEPT ![c][s] =
                                Task("write", "sync", t.manual, gid, screensToTSV(mergedScreens))]
                         /\ Observe(Event(c, {"installed", IF resp = "ok" THEN "found" ELSE resp}, ""))
                         /\ UNCHANGED <<variant, now, gists, nextGist, isSyncing, lastSyncTime>>

\* The server applies a PATCH to an existing gist, or a POST while ids remain.
CanWrite(gid) == IF gid = NoGist THEN nextGist <= MaxGists ELSE gists[gid].exists

WrittenId(gid) == IF gid = NoGist THEN nextGist ELSE gid

Written(gid, body) ==
    [gists EXCEPT ![WrittenId(gid)] = Doc(TRUE, TRUE, body)]

\* app.js:1715-1729  the PATCH or POST returns.
Screen_WriteReturn(c, s) ==
    /\ variant = "screen"
    /\ tasks[c][s].pc = "write"
    /\ LET t == tasks[c][s]
       IN  \E resp \in {"ok", "err"} :
             /\ resp = "ok" => CanWrite(t.gid)
             /\ IF resp = "err" THEN Fail(c, s, t.manual)
                ELSE /\ gists' = Written(t.gid, t.body)
                     /\ nextGist' = IF t.gid = NoGist THEN nextGist + 1 ELSE nextGist
                     /\ settings' = IF settings[c].gistId = NoGist
                                    THEN [settings EXCEPT ![c].gistId = WrittenId(t.gid)]
                                    ELSE settings
                     /\ lastSyncTime' = StampLastSync(c)
                     /\ Finally(c, s, tasks)
                     /\ Observe(Event(c, {"ok", "sync", "wrote"} \cup
                                          (IF t.gid = NoGist THEN {"created"} ELSE {}),
                                     IF t.manual THEN "Synced" ELSE ""))
                     /\ UNCHANGED <<variant, now, items>>

\* part_001:2010-2014  createGist returns.  Its success message is shown
\* whether or not the sync was manual, like the error message of the catch.
Book_CreateReturn(c, s) ==
    /\ variant = "book"
    /\ tasks[c][s].pc = "create"
    /\ LET t == tasks[c][s]
       IN  \E resp \in {"ok", "err"} :
             /\ resp = "ok" => CanWrite(NoGist)
             /\ IF resp = "err" THEN Fail(c, s, TRUE)
                ELSE /\ gists' = Written(NoGist, t.body)
                     /\ nextGist' = nextGist + 1
                     /\ settings' = [settings EXCEPT ![c].gistId = nextGist]
                     /\ lastSyncTime' = StampLastSync(c)
                     /\ Finally(c, s, tasks)
                     /\ Observe(Event(c, {"ok", "sync", "wrote", "created"}, "Synced"))
                     /\ UNCHANGED <<variant, now, items>>

\* part_001:1865-1879  the flag tsvToBooks returns: the header is not in the
\* canonical order (no legacy header and no double quote arises in this model).
needsReorder(g) == ~g.canon

\* part_001:2017-2048  fetchGist returns.  The decoded table overwrites the
\* collection; saveToLocalStorage then calls pushToGitHub, which the flag drops;
\* the table is written back only when needsReorder.
Book_FetchReturn(c, s) ==
    /\ variant = "book"
    /\ tasks[c][s].pc = "fetch"
    /\ LET t == tasks[c][s]
           g == gists[t.gid]
           shown == IF t.manual THEN "Synced" ELSE ""
       IN  \E resp \in {"ok", "notfound", "err"} :
             /\ resp = "ok" => g.exists
             /\ resp = "notfound" => ~g.exists
             /\ IF resp # "ok"
                THEN /\ Finally(c, s, tasks)
                     /\ Observe(Event(c, {"fail", "sync", resp}, "Failed"))
                     /\ UNCHANGED <<variant, now, gists, nextGist, items, settings, lastSyncTime>>
                ELSE IF ~g.file
                THEN /\ lastSyncTime' = StampLastSync(c)
                     /\ Finally(c, s, tasks)
                     /\ Observe(Event(c, {"ok", "sync"}, shown))
                     /\ UNCHANGED <<variant, now, gists, nextGist, items, settings>>
                ELSE LET books == tsvToBooks(g.rows)
                         nested == pushToGitHub(c, books)
                         others == { s2 \in Slots : s2 # s /\ tasks[c][s2].pc = "idle" }
                         withPush == IF nested.task.pc # "idle" /\ others # {}
                                     THEN [tasks EXCEPT ![c][CHOOSE s2 \in others : TRUE] = nested.task]
                                     ELSE tasks
                     IN  /\ items' = [items EXCEPT ![c] = books]
                         /\ IF needsReorder(g)
                            THEN /\ tasks' = [withPush EXCEPT ![c][s] =
                                        Task("write", "sync", t.manual, t.gid, booksToTSV(books))]
                                 /\ Observe(Event(c, {"installed", "found"}, ""))
                                 /\ UNCHANGED <<isSyncing, lastSyncTime>>
                            ELSE /\ lastSyncTime' = StampLastSync(c)
                                 /\ Finally(c, s, withPush)
                                 /\ Observe(Event(c, {"ok", "sync", "installed", "found"}, shown))
                         /\ UNCHANGED <<variant, now, gists, nextGist, settings>>

\* part_001:2035-2048  the corrective updateGist returns.
Book_WriteReturn(c, s) ==
    /\ variant = "book"
    /\ tasks[c][s].pc = "write"
    /\ LET t == tasks[c][s]
       IN  \E resp \in {"ok", "err"} :
             /\ resp = "ok" => CanWrite(t.gid)
             /\ IF resp = "err" THEN Fail(c, s, TRUE)
                ELSE /\ gists' = Written(t.gid, t.body)
                     /\ lastSyncTime' = StampLastSync(c)
                     /\ Finally(c, s, tasks)
                     /\ Observe(Event(c, {"ok", "sync", "wrote"}, IF t.manual THEN "Synced" ELSE ""))
                     /\ UNCHANGED <<variant, now, nextGist, items, settings>>

\* part_001:2072-2077  the updateGist of pushToGitHub returns.
Book_PushReturn(c, s) ==
    /\ variant = "book"
    /\ tasks[c][s].pc = "push"
    /\ LET t == tasks[c][s]
       IN  \E resp \in {"ok", "err"} :
             /\ resp = "ok" => CanWrite(t.gid)
             /\ IF resp = "err" THEN Fail(c, s, FALSE)
                ELSE /\ gists' = Written(t.gid, t.body)
                     /\ Finally(c, s, tasks)
                     /\ Observe(Event(c, {"ok", "push", "wrote"}, ""))
                     /\ UNCHANGED <<variant, now, nextGist, items, settings, lastSyncTime>>

\* ------------------------------------------------------------ the system
\* The gist the clients are configured with is one the user made by hand: it
\* may have been deleted since, hold no table file yet, or hold a table whose
\* header is or is not in the canonical order.
InitDocs == { NoDoc, Doc(FALSE, TRUE, <<>>), Doc(TRUE, TRUE, <<>>), Doc(TRUE, FALSE, <<>>) }

\* Either a fresh install on both clients, or both clients having added and
\* synced one item: the state that AddItem on one client and a full sync on
\* each lead to.  The clock reads t.
InitAt(t) ==
    /\ variant \in {"screen", "book"}
    /\ now = t
    /\ nextGist = 2
    /\ settings = [c \in Clients |-> [gistId |-> 1, apiToken |-> TRUE]]
    /\ isSyncing = [c \in Clients |-> FALSE]
    /\ tasks = [c \in Clients |-> [s \in Slots |-> Idle]]
    /\ event = Event("none", {}, "")
    /\ scen = 0
    /\ input = <<>> /\ op = "none" /\ out = <<>>
    /\ \/ /\ \E d \in InitDocs :
                gists = [g \in 1..MaxGists |-> IF g = 1 THEN d ELSE NoDoc]
          /\ items = [c \in Clients |-> <<>>]
          /\ lastSyncTime = [c \in Clients |-> 0]
       \/ /\ gists = [g \in 1..MaxGists |->
                IF g = 1
                THEN Doc(TRUE, TRUE, IF variant = "screen" THEN screensToTSV(<<SyncedItem>>)
                                     ELSE booksToTSV(<<SyncedItem>>))
                ELSE NoDoc]
          /\ items = [c \in Clients |-> <<SyncedItem>>]
          /\ lastSyncTime = [c \in Clients |-> 1]

Init == InitAt(1)

Next ==
    \/ \E c \in Clients, k \in Ids : AddItem(c, k)
    \/ \E c \in Clients, s \in Slots : AddCached(c, s)
    \/ \E c \in Clients, i \in 1..MaxItems : DeleteItem(c, i)
    \/ \E c \in Clients, i \in 1..MaxItems, st \in Statuses : SetStatus(c, i, st)
    \/ \E c \in Clients, i \in 1..MaxItems : SetRating(c, i)
    \/ \E c \in Clients : SyncNow(c)
    \/ \E c \in Clients : Focus(c)
    \/ \E c \in Clients, gid \in 0..MaxGists, token \in BOOLEAN : saveSettings(c, gid, token)
    \/ \E c \in Clients, s \in Slots : Screen_FetchReturn(c, s)
    \/ \E c \in Clients, s \in Slots : Screen_WriteReturn(c, s)
    \/ \E c \in Clients, s \in Slots : Book_CreateReturn(c, s)
    \/ \E c \in Clients, s \in Slots : Book_FetchReturn(c, s)
    \/ \E c \in Clients, s \in Slots : Book_WriteReturn(c, s)
    \/ \E c \in Clients, s \in Slots : Book_PushReturn(c, s)

Spec == Init /\ [][Next]_vars

\* The network returns: each settles one pending request.
NetworkReturn ==
    \E c \in Clients, s \in Slots :
        \/ Screen_FetchReturn(c, s)
        \/ Screen_WriteReturn(c, s)
        \/ Book_CreateReturn(c, s)
        \/ Book_FetchReturn(c, s)
        \/ Book_WriteReturn(c, s)
        \/ Book_PushReturn(c, s)

\* The same clients opened one clock reading later: a session one user event
\* shorter.
LateInit == InitAt(2)

\* Every request the browser sends settles: fetch() resolves or rejects.
FairSpec == LateInit /\ [][Next]_vars /\ WF_vars(NetworkReturn)

\* ------------------------------------------------------------------ text
\* A string is a sequence of characters.  The characters that matter to the
\* codec are named: "TAB", "NL", "CR", "SP", "QUOTE" (the double quote), "APOS"
\* (the single quote) and ","; a column name, a type name and a digit are one
\* character each.
IsSpace(ch) == ch \in {"SP", "TAB", "NL", "CR"}

\* String.prototype.trim
RECURSIVE TrimLeft(_)
TrimLeft(str) ==
    IF str # <<>> /\ IsSpace(Head(str)) THEN TrimLeft(Tail(str)) ELSE str

RECURSIVE TrimRight(_)
TrimRight(str) ==
    IF str # <<>> /\ IsSpace(str[Len(str)])
    THEN TrimRight(SubSeq(str, 1, Len(str) - 1)) ELSE str

Trim(str) == TrimRight(TrimLeft(str))

\* String.prototype.split(sep): the pieces between the separators, one more
\* than there are separators.
RECURSIVE SplitFrom(_, _, _)
SplitFrom(str, sep, piece) ==
    IF str = <<>> THEN <<piece>>
    ELSE IF Head(str) = sep THEN <<piece>> \o SplitFrom(Tail(str), sep, <<>>)
    ELSE SplitFrom(Tail(str), sep, Append(piece, Head(str)))

Split(str, sep) == SplitFrom(str, sep, <<>>)

\* Array.prototype.join(sep)
RECURSIVE Join(_, _)
Join(strs, sep) ==
    IF strs = <<>> THEN <<>>
    ELSE IF Len(strs) = 1 THEN strs[1]
    ELSE strs[1] \o <<sep>> \o Join(Tail(strs), sep)

\* The decimal form of a small number.
NumStr(n) == <<"0", "1", "2", "3", "4", "5", "6", "7", "8", "9">>[n + 1]

\* The order of the characters that occur in a timestamp.
Rank(ch) == CHOOSE n \in 0..9 : NumStr(n) = ch

\* a > b on strings: the comparison of two ISO timestamps.
RECURSIVE StrGreater(_, _)
StrGreater(a, b) ==
    IF a = <<>> THEN FALSE
    ELSE IF b = <<>> THEN TRUE
    ELSE IF Head(a) # Head(b) THEN Rank(Head(a)) > Rank(Head(b))
    ELSE StrGreater(Tail(a), Tail(b))

\* str.split(',').filter(t => t)
TagList(str) == IF str = <<>> THEN <<>> ELSE SelectSeq(Split(str, ","), LAMBDA t : t # <<>>)

\* ------------------------------------------------------- the screen table
\* app.js:1740  the header line of screens.tsv
ScreenHeader ==
    <<"addedAt", "finishedAt", "tmdbID", "lastWatchedEpisode", "tags", "type",
      "title", "year", "posterURL", "description">>

\* app.js:1741-1756  the row of one screen; `x || ''` turns null into ''.
ScreenRow(screen) ==
    Join(<<screen.addedAt, screen.finishedAt, screen.tmdbId, screen.lastWatchedEpisode,
           Join(screen.tags, ","),
           IF screen.type = <<"tv">> THEN <<"show">> ELSE screen.type,
           screen.title, screen.year, screen.posterUrl, screen.overview>>, "TAB")

\* app.js:1739-1759  screensToTSV, as text
screensToTSVText(screens) ==
    Join([c \in 1..Len(ScreenHeader) |-> <<ScreenHeader[c]>>], "TAB")
        \o <<"NL">> \o
    Join([i \in 1..Len(screens) |-> ScreenRow(screens[i])], "NL")

\* app.js:1768-1794  one line of the table: no screen for an empty line or a
\* line of fewer than ten fields.  i is the index of the line, t the clock.
ScreenOfLine(text, i, t) ==
    LET line == Trim(text)
        parts == Split(line, "TAB")
        type == IF parts[6] = <<"show">> THEN <<"tv">> ELSE parts[6]
    IN  IF line = <<>> \/ Len(parts) < 10 THEN <<>>
        ELSE <<[id |-> IF parts[3] # <<>> THEN type \o <<"_">> \o parts[3]
                       ELSE <<"manual", "_", NumStr(t), "_", NumStr(i)>>,
                addedAt |-> parts[1], finishedAt |-> parts[2], tmdbId |-> parts[3],
                lastWatchedEpisode |-> parts[4], tags |-> TagList(parts[5]),
                type |-> type, title |-> parts[7], year |-> parts[8],
                posterUrl |-> parts[9], overview |-> parts[10]]>>

RECURSIVE ScreensOfLines(_, _, _)
ScreensOfLines(lines, i, t) ==
    IF i > Len(lines) - 1 THEN <<>>
    ELSE ScreenOfLine(lines[i + 1], i, t) \o ScreensOfLines(lines, i + 1, t)

\* app.js:1762-1797  tsvToScreens, as text, run when the clock reads t
tsvToScreensText(tsv, t) ==
    LET lines == Split(tsv, "NL")
    IN  IF Len(lines) < 2 THEN <<>> ELSE ScreensOfLines(lines, 1, t)

\* --------------------------------------------------------- the book table
\* part_001:1636  the header line of books.tsv, which is also the
\* expectedColumnOrder of part_001:1682
BookHeader ==
    <<"addedAt", "startedAt", "finishedAt", "isbn", "tags", "title", "author",
      "year", "coverUrl", "description">>

\* part_001:1643-1646  escapeField
escapeField(str) ==
    LET kept == SelectSeq(str, LAMBDA ch : ch # "CR")
    IN  [i \in 1..Len(kept) |->
            CASE kept[i] \in {"TAB", "NL"} -> "SP"
              [] kept[i] = "QUOTE" -> "APOS"
              [] OTHER -> kept[i]]

\* part_001:1647-1658  the row of one book
BookRow(book) ==
    Join(<<book.addedAt, book.startedAt, book.finishedAt, book.isbn,
           Join(book.tags, ","),
           escapeField(book.title), escapeField(book.author), book.year,
           book.coverUrl, escapeField(book.description)>>, "TAB")

\* part_001:1635-1664  booksToTSV, as text: only books that have an ISBN
booksToTSVText(books) ==
    LET synced == SelectSeq(books, LAMBDA book : book.isbn # <<>>)
    IN  Join(<<Join([c \in 1..Len(BookHeader) |-> <<BookHeader[c]>>], "TAB")>>
             \o [i \in 1..Len(synced) |-> BookRow(synced[i])], "NL")

\* part_001:1676-1679  columnMap[col.trim()] = idx: the last column of that
\* name, 0 for undefined
RECURSIVE ColumnIndex(_, _, _)
ColumnIndex(header, name, idx) ==
    IF idx = 0 THEN 0
    ELSE IF Trim(header[idx]) = <<name>> THEN idx
    ELSE ColumnIndex(header, name, idx - 1)

\* part_001:1703-1706  getValue
getValue(header, cols, colName) ==
    LET idx == ColumnIndex(header, colName, Len(header))
    IN  IF idx = 0 \/ idx > Len(cols) THEN <<>> ELSE Trim(cols[idx])

\* part_001:1709-1714  sanitizeField
sanitizeField(str) ==
    [i \in 1..Len(str) |-> IF str[i] = "QUOTE" THEN "APOS" ELSE str[i]]

\* The test of the order that looks at the first column only.
isWrongOrder_firstColumn(header) == Trim(header[1]) # <<BookHeader[1]>>

\* part_001:1685-1686  isWrongOrder
isWrongOrder(header) ==
    ~\A idx \in 1..Len(BookHeader) :
        idx <= Len(header) /\ Trim(header[idx]) = <<BookHeader[idx]>>

\* part_001:1691  needsMigration
needsMigrationOf(header) ==
    \/ ~\E idx \in 1..Len(header) : header[idx] = <<"startedAt">>
    \/ ~\E idx \in 1..Len(header) : header[idx] = <<"finishedAt">>

ListTags == {<<"to_read">>, <<"reading">>, <<"read">>}

\* The migration that treats a 'reading' row as a 'to_read' one.
MigrateTimestamps_ignoresReading(ts, tags) ==
    LET found == SelectSeq(tags, LAMBDA tg : tg \in ListTags)
        listTag == IF found = <<>> THEN <<>> ELSE found[1]
    IN  CASE listTag \in {<<"to_read">>, <<"reading">>} ->
                [ts EXCEPT !.startedAt = <<>>, !.finishedAt = <<>>]
          [] listTag = <<"read">> -> [ts EXCEPT !.startedAt = ts.addedAt, !.finishedAt = ts.addedAt]
          [] OTHER -> ts

\* part_001:1733-1750  the legacy migration of one row's timestamps
MigrateTimestamps(ts, tags) ==
    LET found == SelectSeq(tags, LAMBDA tg : tg \in ListTags)
        listTag == IF found = <<>> THEN <<>> ELSE found[1]
    IN  CASE listTag = <<"to_read">> -> [ts EXCEPT !.startedAt = <<>>, !.finishedAt = <<>>]
          [] listTag = <<"reading">> -> [ts EXCEPT !.startedAt = ts.addedAt, !.finishedAt = <<>>]
          [] listTag = <<"read">> -> [ts EXCEPT !.startedAt = ts.addedAt, !.finishedAt = ts.addedAt]
          [] OTHER -> ts

\* part_001:1753-1770  the timestamp integrity checks, on strings
RepairTimestampsText(ts) ==
    LET a1 == IF ts.startedAt # <<>> /\ (ts.addedAt = <<>> \/ StrGreater(ts.addedAt, ts.startedAt))
              THEN ts.startedAt ELSE ts.addedAt
        s2 == IF ts.finishedAt # <<>> /\ (ts.startedAt = <<>> \/ StrGreater(ts.startedAt, ts.finishedAt))
              THEN ts.finishedAt ELSE ts.startedAt
        a2 == IF ts.finishedAt # <<>> /\ (a1 = <<>> \/ StrGreater(a1, s2)) THEN s2 ELSE a1
    IN  [addedAt |-> a2, startedAt |-> s2, finishedAt |-> ts.finishedAt]

\* The answer of the Google Books API for an ISBN: no volume, or a volume.
NoVolume == [found |-> FALSE]

Volume ==
    [found |-> TRUE, id |-> <<"v">>, title |-> <<"t">>, authors |-> <<"u">>,
     publishedDate |-> <<"1">>, description |-> <<"d">>, coverUrl |-> <<"c">>]

Or(a, b) == IF a # <<>> THEN a ELSE b

\* part_001:1699-1857  one line of the table: no book for a row without ISBN;
\* sync tells whether the book is built at once or after the API call.
BookOfLine(header, text, api) ==
    LET cols == Split(text, "TAB")
        isbn == getValue(header, cols, "isbn")
        title == sanitizeField(getValue(header, cols, "title"))
        author == sanitizeField(getValue(header, cols, "author"))
        year == getValue(header, cols, "year")
        description == sanitizeField(getValue(header, cols, "description"))
        coverUrl == getValue(header, cols, "coverUrl")
        tagsStr == getValue(header, cols, "tags")
        tags0 == IF tagsStr = <<>> THEN <<>>
                 ELSE SelectSeq(Split(tagsStr, ","), LAMBDA tg : Trim(tg) # <<>>)
        ts0 == [addedAt |-> getValue(header, cols, "addedAt"),
                startedAt |-> getValue(header, cols, "startedAt"),
                finishedAt |-> getValue(header, cols, "finishedAt")]
        migrate == needsMigrationOf(header)
        ts == RepairTimestampsText(IF migrate THEN MigrateTimestamps(ts0, tags0) ELSE ts0)
        tags == IF migrate THEN SelectSeq(tags0, LAMBDA tg : tg \notin ListTags) ELSE tags0
        needsAPIFetch == <<>> \in {title, author, year, description, coverUrl}
        v == IF needsAPIFetch /\ api.found THEN api
             ELSE [found |-> FALSE, id |-> <<>>, title |-> <<>>, authors |-> <<>>,
                   publishedDate |-> <<>>, description |-> <<>>, coverUrl |-> <<>>]
    IN  IF isbn = <<>> THEN <<>>
        ELSE <<[id |-> Or(v.id, isbn), isbn |-> isbn,
                title |-> Or(title, Or(v.title, <<"Unknown Title">>)),
                author |-> Or(author, Or(v.authors, <<"Unknown Author">>)),
                year |-> Or(year, Or(v.publishedDate, <<"N/A">>)),
                description |-> Or(description, v.description),
                coverUrl |-> Or(coverUrl, v.coverUrl),
                tags |-> tags,
                addedAt |-> ts.addedAt, startedAt |-> ts.startedAt,
                finishedAt |-> ts.finishedAt,
                sync |-> ~needsAPIFetch]>>

RECURSIVE BooksOfLines(_, _, _, _)
BooksOfLines(header, lines, i, api) ==
    IF i > Len(lines) THEN <<>>
    ELSE BookOfLine(header, lines[i], api) \o BooksOfLines(header, lines, i + 1, api)

Book(b) ==
    [id |-> b.id, isbn |-> b.isbn, title |-> b.title, author |-> b.author,
     year |-> b.year, description |-> b.description, coverUrl |-> b.coverUrl,
     tags |-> b.tags, addedAt |-> b.addedAt, startedAt |-> b.startedAt,
     finishedAt |-> b.finishedAt]

\* part_001:1668-1880  tsvToBooks, as text, with the API answering `api` for
\* every ISBN it is asked about.  The books built at once come first, those
\* built after an API call follow (here in row order).
tsvToBooksText(tsv, api) ==
    LET lines == Split(Trim(tsv), "NL")
        header == Split(lines[1], "TAB")
        built == BooksOfLines(header, lines, 2, api)
        ordered == SelectSeq(built, LAMBDA b : b.sync) \o SelectSeq(built, LAMBDA b : ~b.sync)
        needsSanitization ==
            \E i \in 2..Len(lines) :
                LET cols == Split(lines[i], "TAB")
                IN  /\ getValue(header, cols, "isbn") # <<>>
                    /\ \E name \in {"title", "author", "description"} :
                           sanitizeField(getValue(header, cols, name)) # getValue(header, cols, name)
    IN  [books |-> [i \in 1..Len(ordered) |-> Book(ordered[i])],
         needsReorder |-> isWrongOrder(header) \/ needsMigrationOf(header) \/ needsSanitization]

\* ---------------------------------------------------------- list status
\* The status function without the test of the type.
getScreenListStatus_anyType(screen) ==
    IF screen.finishedAt # <<>> THEN "watched"
    ELSE IF screen.lastWatchedEpisode # <<>> THEN "watching"
    ELSE IF screen.addedAt # <<>> THEN "to_watch"
    ELSE "none"

\* app.js:75-81  getScreenListStatus, "none" for null
getScreenListStatus(screen) ==
    IF screen.finishedAt # <<>> THEN "watched"
    ELSE IF screen.type = <<"tv">> /\ screen.lastWatchedEpisode # <<>> THEN "watching"
    ELSE IF screen.addedAt # <<>> THEN "to_watch"
    ELSE "none"

\* part_001:25-30  getBookListStatus, "none" for null
getBookListStatus(book) ==
    IF book.finishedAt # <<>> THEN "read"
    ELSE IF book.startedAt # <<>> THEN "reading"
    ELSE IF book.addedAt # <<>> THEN "to_read"
    ELSE "none"

\* app.js:1189-1201  the status pill of a tracked screen is clicked:
\* setListTimestamps(existingScreen, status) on the stored record.
Screen_pillClick(screen, status, t) ==
    CASE status = "to_watch" ->
            [screen EXCEPT !.addedAt = t, !.finishedAt = <<>>, !.lastWatchedEpisode = <<>>]
      [] status = "watching" ->
            [screen EXCEPT !.finishedAt = <<>>,
                           !.addedAt = IF screen.addedAt = <<>> THEN t ELSE screen.addedAt]
      [] status = "watched" ->
            [screen EXCEPT !.finishedAt = t,
                           !.addedAt = IF screen.addedAt = <<>> THEN t ELSE screen.addedAt]
      [] OTHER -> screen

\* part_001:815-824  changeBookListStatus: setListTimestamps(book, newListTag)
\* on the stored record.
changeBookListStatus(book, newListTag, t) ==
    CASE newListTag = "to_read" ->
            [book EXCEPT !.addedAt = t, !.startedAt = <<>>, !.finishedAt = <<>>]
      [] newListTag = "reading" ->
            [book EXCEPT !.startedAt = t, !.finishedAt = <<>>,
                         !.addedAt = IF book.addedAt = <<>> \/ StrGreater(book.addedAt, t)
                                     THEN t ELSE book.addedAt]
      [] newListTag = "read" ->
            LET st == IF book.startedAt = <<>> \/ StrGreater(book.startedAt, t)
                      THEN t ELSE book.startedAt
            IN  [book EXCEPT !.finishedAt = t, !.startedAt = st,
                             !.addedAt = IF book.addedAt = <<>> \/ StrGreater(book.addedAt, st)
                                         THEN st ELSE book.addedAt]
      [] OTHER -> book

\* app.js:954-976 / part_001:1384-1398  the statuses the detail view of an
\* item offers: "watching" only for a series.
Offered(item) ==
    IF variant = "screen"
    THEN {"to_watch", "watched"} \cup (IF item.type = <<"tv">> THEN {"watching"} ELSE {})
    ELSE {"to_read", "reading", "read"}

\* ------------------------------------------------------------ rating tags
Digits == { NumStr(n) : n \in 0..9 }

\* app.js:24 / part_001:15  tag.match(/^\d{2}_stars$/); "_stars" is one character.
IsRatingTag(tag) ==
    /\ Len(tag) = 3
    /\ tag[1] \in Digits
    /\ tag[2] \in Digits
    /\ tag[3] = "_stars"

\* app.js:27 / part_001:18  rating.toString().padStart(2, '0') + '_stars', for
\* a rating below ten
RatingTagOf(rating) == <<"0", NumStr(rating), "_stars">>

\* app.js:22-31 / part_001:13-22  setRatingTag(tags, rating), rating 0 for null
setRatingTag(tags, rating) ==
    LET tagsWithoutRating == SelectSeq(tags, LAMBDA tag : ~IsRatingTag(tag))
    IN  IF rating # 0 THEN Append(tagsWithoutRating, RatingTagOf(rating))
        ELSE tagsWithoutRating

\* ------------------------------------------------------ the list on display
\* The characters of the sample titles and timestamps, in their order.
Alphabet == <<"0", "1", "2", "3", "4", "5", "6", "7", "8", "9", "a", "b">>

CodeOf(ch) == CHOOSE n \in 1..Len(Alphabet) : Alphabet[n] = ch

\* a < b on strings
RECURSIVE StrBefore(_, _)
StrBefore(a, b) ==
    IF b = <<>> THEN FALSE
    ELSE IF a = <<>> THEN TRUE
    ELSE IF Head(a) # Head(b) THEN CodeOf(Head(a)) < CodeOf(Head(b))
    ELSE StrBefore(Tail(a), Tail(b))

\* a.localeCompare(b), as its sign
localeCompare(a, b) == IF StrBefore(a, b) THEN -1 ELSE IF StrBefore(b, a) THEN 1 ELSE 0

\* The number a string of digits converts to, 0 for ''.
RECURSIVE NumOf(_)
NumOf(str) ==
    IF str = <<>> THEN 0
    ELSE 10 * NumOf(SubSeq(str, 1, Len(str) - 1)) + Rank(str[Len(str)])

\* app.js:15-20 / part_001:6-11  getRatingFromTags(tags) || 0
getRatingFromTags(tags) ==
    LET found == SelectSeq(tags, IsRatingTag)
    IN  IF found = <<>> THEN 0 ELSE NumOf(SubSeq(found[1], 1, 2))

Sign(n) == IF n < 0 THEN -1 ELSE IF n > 0 THEN 1 ELSE 0

\* app.js:1356-1377  the comparator of renderScreens, as its sign
Screen_compare(a, b, sortBy, sortOrder) ==
    LET compare ==
            CASE sortBy = "title" -> localeCompare(a.title, b.title)
              [] sortBy = "year" -> Sign(NumOf(a.year) - NumOf(b.year))
              [] sortBy = "rating" ->
                    Sign(getRatingFromTags(b.tags) - getRatingFromTags(a.tags))
              [] OTHER -> localeCompare(b.addedAt, a.addedAt)
    IN  IF sortOrder = "asc" THEN compare ELSE 0 - compare

\* part_001:887-924  the comparator of sortBooks
Book_compare(a, b, sortBy, sortOrder) ==
    LET less ==
            CASE sortBy = "title" -> StrBefore(a.title, b.title)
              [] sortBy = "year" ->
                    StrBefore(IF a.year = <<"N/A">> THEN <<"0">> ELSE a.year,
                              IF b.year = <<"N/A">> THEN <<"0">> ELSE b.year)
              [] sortBy = "rating" -> getRatingFromTags(a.tags) < getRatingFromTags(b.tags)
              [] OTHER -> StrBefore(a.addedAt, b.addedAt)
        greater ==
            CASE sortBy = "title" -> StrBefore(b.title, a.title)
              [] sortBy = "year" ->
                    StrBefore(IF b.year = <<"N/A">> THEN <<"0">> ELSE b.year,
                              IF a.year = <<"N/A">> THEN <<"0">> ELSE a.year)
              [] sortBy = "rating" -> getRatingFromTags(a.tags) > getRatingFromTags(b.tags)
              [] OTHER -> StrBefore(b.addedAt, a.addedAt)
    IN  IF less THEN (IF sortOrder = "asc" THEN -1 ELSE 1)
        ELSE IF greater THEN (IF sortOrder = "asc" THEN 1 ELSE -1)
        ELSE 0

compareItems(a, b, sortBy, sortOrder) ==
    IF variant = "screen" THEN Screen_compare(a, b, sortBy, sortOrder)
    ELSE Book_compare(a, b, sortBy, sortOrder)

\* Array.prototype.sort with that comparator: a stable sort.
RECURSIVE InsertSorted(_, _, _, _)
InsertSorted(sorted, x, sortBy, sortOrder) ==
    IF sorted = <<>> THEN <<x>>
    ELSE IF compareItems(sorted[Len(sorted)], x, sortBy, sortOrder) > 0
    THEN Append(InsertSorted(SubSeq(sorted, 1, Len(sorted) - 1), x, sortBy, sortOrder),
                sorted[Len(sorted)])
    ELSE Append(sorted, x)

RECURSIVE SortedBy(_, _, _)
SortedBy(list, sortBy, sortOrder) ==
    IF list = <<>> THEN <<>>
    ELSE InsertSorted(SortedBy(SubSeq(list, 1, Len(list) - 1), sortBy, sortOrder),
                      list[Len(list)], sortBy, sortOrder)

\* app.js:1336-1343 / part_001:1019-1027  the test of one filter tag
MatchesFilter(it, filterTag) ==
    IF filterTag \in { <<st>> : st \in Statuses }
    THEN <<IF variant = "screen" THEN getScreenListStatus(it) ELSE getBookListStatus(it)>>
            = filterTag
    ELSE \E k \in 1..Len(it.tags) : it.tags[k] = filterTag

\* app.js:1325-1378  renderScreens: without a filter the list sorted is
\* state.screens itself, and sort() sorts it in place.
Screen_render(screens, filterTags, sortBy, sortOrder) ==
    LET filtered == SelectSeq(screens, LAMBDA it :
                        \A k \in 1..Len(filterTags) : MatchesFilter(it, filterTags[k]))
        shown == SortedBy(filtered, sortBy, sortOrder)
    IN  [shown |-> shown, items |-> IF filterTags = <<>> THEN shown ELSE screens]

\* part_001:1012-1047, 884-928  renderBooks: sortBooks sorts a copy.
Book_render(books, filterTags, sortBy, sortOrder) ==
    LET filtered == SelectSeq(books, LAMBDA it :
                        \A k \in 1..Len(filterTags) : MatchesFilter(it, filterTags[k]))
    IN  [shown |-> SortedBy(filtered, sortBy, sortOrder), items |-> books]

\* ------------------------------------------- functions applied on their own
\* The timestamps an argument may carry: 1..MaxStamp, 0 for null.
MaxStamp == 3

\* An item as a status change may find it: any timestamps, as a remote row
\* written by another device or by hand may have left them.  A screen has no
\* startedAt.
StoredItems ==
    { [NewItem(SearchId(1), 1) EXCEPT !.addedAt = a, !.startedAt = b, !.finishedAt = f] :
        a \in 0..MaxStamp,
        b \in IF variant = "screen" THEN {0} ELSE 0..MaxStamp,
        f \in 0..MaxStamp }

\* The arguments of setListTimestamps, with the clock reading of the call.
StatusChanges ==
    { [fn |-> "setListTimestamps", item |-> it, listStatus |-> st, t |-> t] :
        it \in StoredItems, st \in Statuses, t \in 1..MaxStamp }

\* A timestamp or an episode code as a field holds it: unset or set.
Marks == {<<>>, <<"1">>}

\* The arguments of getScreenListStatus / getBookListStatus.
StatusQueries ==
    IF variant = "screen"
    THEN { [fn |-> "getListStatus",
            item |-> [addedAt |-> a, finishedAt |-> f, lastWatchedEpisode |-> e, type |-> ty]] :
              a \in Marks, f \in Marks, e \in Marks, ty \in {<<"movie">>, <<"tv">>} }
    ELSE { [fn |-> "getListStatus",
            item |-> [addedAt |-> a, startedAt |-> b, finishedAt |-> f]] :
              a \in Marks, b \in Marks, f \in Marks }

\* The longest list of items, and the most rows of a table, an argument holds.
MaxRows == 2

\* Strings that hold one of the characters the table reserves.
Dirty ==
    { <<"a", ch, "b">> : ch \in {"TAB", "NL", "CR", "QUOTE"} }

\* app.js:672-696  a screen as a search result carries it, once stamped: a
\* film with every field set.
BaseScreen ==
    [id |-> <<"movie", "_", "7">>, addedAt |-> <<"1">>, finishedAt |-> <<"2">>,
     tmdbId |-> <<"7">>, lastWatchedEpisode |-> <<>>, tags |-> <<<<"x">>>>,
     type |-> <<"movie">>, title |-> <<"a">>, year |-> <<"1">>,
     posterUrl |-> <<"p">>, overview |-> <<"d">>]

\* Screens none of whose fields holds a reserved character: the base screen,
\* a series with an episode code, a second film, a manual entry (app.js:1312,
\* no tmdbId), and the base screen with one optional field empty.
CleanScreens ==
    { BaseScreen,
      [BaseScreen EXCEPT !.id = <<"tv", "_", "7">>, !.type = <<"tv">>,
                         !.lastWatchedEpisode = <<"e">>, !.finishedAt = <<>>],
      [BaseScreen EXCEPT !.id = <<"movie", "_", "8">>, !.tmdbId = <<"8">>],
      [BaseScreen EXCEPT !.id = <<"manual", "_", "1">>, !.tmdbId = <<>>],
      [BaseScreen EXCEPT !.finishedAt = <<>>],
      [BaseScreen EXCEPT !.overview = <<>>],
      [BaseScreen EXCEPT !.posterUrl = <<>>],
      [BaseScreen EXCEPT !.tags = <<>>],
      [BaseScreen EXCEPT !.tags = <<<<"x">>, <<"y">>>>] }

\* The base screen with a reserved character in one field.
DirtyScreens ==
    { [BaseScreen EXCEPT !.title = d] : d \in Dirty }
        \cup { [BaseScreen EXCEPT !.overview = d] : d \in Dirty }
        \cup { [BaseScreen EXCEPT !.year = d] : d \in Dirty }
        \cup { [BaseScreen EXCEPT !.posterUrl = d] : d \in Dirty }
        \cup { [BaseScreen EXCEPT !.tags = <<d>>] : d \in Dirty }
        \cup { [BaseScreen EXCEPT !.tmdbId = d] : d \in Dirty }

\* part_001:1254-1263  a book as the manual entry form makes it, once stamped:
\* its id is its ISBN.
BaseBook ==
    [id |-> <<"9">>, isbn |-> <<"9">>, title |-> <<"a">>, author |-> <<"w">>,
     year |-> <<"1">>, description |-> <<"d">>, coverUrl |-> <<"p">>,
     tags |-> <<<<"x">>>>, addedAt |-> <<"1">>, startedAt |-> <<"2">>,
     finishedAt |-> <<"3">>]

\* Books none of whose fields holds a reserved character: the base book, a
\* search result (part_001:665-675, its id is the volume id), a second book, a
\* search result without ISBN, and the base book with optional fields empty.
CleanBooks ==
    { BaseBook,
      [BaseBook EXCEPT !.id = <<"v">>],
      [BaseBook EXCEPT !.id = <<"8">>, !.isbn = <<"8">>],
      [BaseBook EXCEPT !.id = <<"v">>, !.isbn = <<>>],
      [BaseBook EXCEPT !.finishedAt = <<>>],
      [BaseBook EXCEPT !.startedAt = <<>>, !.finishedAt = <<>>],
      [BaseBook EXCEPT !.description = <<>>],
      [BaseBook EXCEPT !.coverUrl = <<>>],
      [BaseBook EXCEPT !.tags = <<>>],
      [BaseBook EXCEPT !.tags = <<<<"x">>, <<"y">>>>] }

\* The base book with a reserved character in one field.
DirtyBooks ==
    { [BaseBook EXCEPT !.title = d] : d \in Dirty }
        \cup { [BaseBook EXCEPT !.description = d] : d \in Dirty }
        \cup { [BaseBook EXCEPT !.year = d] : d \in Dirty }
        \cup { [BaseBook EXCEPT !.coverUrl = d] : d \in Dirty }
        \cup { [BaseBook EXCEPT !.tags = <<d>>] : d \in Dirty }
        \cup { [BaseBook EXCEPT !.isbn = d] : d \in Dirty }

CleanItems == IF variant = "screen" THEN CleanScreens ELSE CleanBooks

DirtyItems == IF variant = "screen" THEN DirtyScreens ELSE DirtyBooks

\* The lists of at most MaxRows of the given items.
ListsOf(S) == UNION { [1..n -> S] : n \in 0..MaxRows }

\* state.screens / state.books as the encoder may find it.
Collections == ListsOf(CleanItems) \cup ListsOf(DirtyItems)

\* The arguments of screensToTSV / booksToTSV.
Encodings == { [fn |-> "encode", items |-> l] : l \in Collections }

\* app.js:1739 / part_001:1635  the table of a collection
EncodeText(l) == IF variant = "screen" THEN screensToTSVText(l) ELSE booksToTSVText(l)

\* The answers the Google Books API may give while a table is decoded; the
\* screen decoder asks nothing.
Answers == IF variant = "screen" THEN {NoVolume} ELSE {NoVolume, Volume}

\* The canonical header, two neighbouring columns exchanged, and the reverse.
Canonical == IF variant = "screen" THEN ScreenHeader ELSE BookHeader

Exchange(h, i, j) ==
    [c \in 1..Len(h) |-> IF c = i THEN h[j] ELSE IF c = j THEN h[i] ELSE h[c]]

ColumnOrders ==
    { Canonical, Exchange(Canonical, 1, 2), Exchange(Canonical, 7, 8),
      [c \in 1..Len(Canonical) |-> Canonical[Len(Canonical) + 1 - c]] }

\* A timestamp as a remote row may carry it.
Stamps == { <<>> } \cup { <<NumStr(n)>> : n \in 1..MaxStamp }

\* A row of a table some other writer made: a value for every column, every
\* value but the timestamps set and no two alike.
WrittenRows ==
    IF variant = "screen"
    THEN { [addedAt |-> a, finishedAt |-> f, tmdbID |-> <<"7">>,
            lastWatchedEpisode |-> <<"e">>, tags |-> <<"x">>, type |-> <<"show">>,
            title |-> <<"a">>, year |-> <<"6">>, posterURL |-> <<"p">>,
            description |-> <<"d">>] : a \in Stamps, f \in Stamps }
    ELSE { [addedAt |-> a, startedAt |-> b, finishedAt |-> f, isbn |-> <<"9">>,
            tags |-> <<"x">>, title |-> <<"a">>, author |-> <<"w">>,
            year |-> <<"6">>, coverUrl |-> <<"p">>, description |-> <<"d">>] :
              a \in Stamps, b \in Stamps, f \in Stamps }

\* The text of a table with the columns in the given order.
Render(order, rows) ==
    Join(<<Join([c \in 1..Len(order) |-> <<order[c]>>], "TAB")>>
         \o [i \in 1..Len(rows) |->
                Join([c \in 1..Len(order) |-> rows[i][order[c]]], "TAB")], "NL")

\* A table of some other schema: no column of the canonical header.
ForeignHeader == <<"id", "name">>

ForeignRows == { [id |-> <<"9">>, name |-> <<"a">>] }

\* The header without the given columns.
Without(h, cols) == SelectSeq(h, LAMBDA col : col \notin cols)

\* The headers of the legacy book table, where the list is a tag: startedAt
\* and finishedAt are missing, or finishedAt only.
LegacyHeaders ==
    { Without(BookHeader, {"startedAt", "finishedAt"}), Without(BookHeader, {"finishedAt"}) }

\* The tags column of a legacy row: a list tag, alone or after another tag,
\* or no list tag.
LegacyTags ==
    { <<"to_read">>, <<"reading">>, <<"read">>, <<"x", ",", "reading">>, <<"x">> }

\* A row of a legacy book table: addedAt set, as the program has always
\* stamped it.
LegacyRows ==
    { [addedAt |-> <<"1">>, startedAt |-> b, isbn |-> <<"9">>, tags |-> tg,
       title |-> <<"a">>, author |-> <<"w">>, year |-> <<"6">>,
       coverUrl |-> <<"p">>, description |-> <<"d">>] :
          b \in {<<>>, <<"2">>}, tg \in LegacyTags }

\* A row of a book table with a double quote in one of the text fields.
QuotedRows ==
    { [addedAt |-> <<"1">>, startedAt |-> <<>>, finishedAt |-> <<>>, isbn |-> <<"9">>,
       tags |-> <<"x">>, title |-> ti, author |-> au, year |-> <<"6">>,
       coverUrl |-> <<"p">>, description |-> de] :
          ti \in {<<"a">>, <<"a", "QUOTE">>}, au \in {<<"w">>, <<"QUOTE", "w">>},
          de \in {<<"d">>, <<"d", "QUOTE", "d">>} }

\* The tables only the book decoder meets: legacy ones and ones with quotes.
BookTables ==
    IF variant = "screen" THEN {}
    ELSE { [kind |-> "legacy", order |-> o, rows |-> <<r>>] :
              o \in LegacyHeaders, r \in LegacyRows }
           \cup { [kind |-> "written", order |-> BookHeader, rows |-> <<r>>] : r \in QuotedRows }

\* The arguments of tsvToScreens / tsvToBooks: the table the encoder made of a
\* clean collection, or a one-row table of another writer; the clock and the
\* answer of the API during the call.
Decodings ==
    { [fn |-> "decode", src |-> src, tsv |-> Render(src.order, src.rows), t |-> 1, api |-> v] :
          src \in BookTables
                   \cup { [kind |-> "foreign", order |-> ForeignHeader, rows |-> <<r>>] :
                            r \in ForeignRows },
          v \in Answers }
      \cup
    { [fn |-> "decode", src |-> [kind |-> "encoded", items |-> l],
       tsv |-> EncodeText(l), t |-> 1, api |-> v] :
          l \in ListsOf(CleanItems), v \in Answers }
      \cup
    { [fn |-> "decode", src |-> [kind |-> "written", order |-> o, rows |-> <<r>>],
       tsv |-> Render(o, <<r>>), t |-> 1, api |-> v] :
          o \in ColumnOrders, r \in WrittenRows, v \in Answers }

\* The items of a list on display: two titles, two years, two ratings and
\* none, two times of adding, one item not finished.
BaseItem == IF variant = "screen" THEN BaseScreen ELSE BaseBook

ListedItems ==
    { [BaseItem EXCEPT !.id = <<"1">>, !.title = <<"a">>, !.year = <<"1">>,
                       !.tags = <<<<"x">>>>, !.addedAt = <<"1">>],
      [BaseItem EXCEPT !.id = <<"2">>, !.title = <<"a">>, !.year = <<"2">>,
                       !.tags = <<<<"x">>, <<"0", "8", "_stars">>>>, !.addedAt = <<"2">>],
      [BaseItem EXCEPT !.id = <<"3">>, !.title = <<"b">>, !.year = <<"1">>,
                       !.tags = <<<<"0", "5", "_stars">>>>, !.addedAt = <<"2">>,
                       !.finishedAt = <<>>],
      [BaseItem EXCEPT !.id = <<"4">>, !.title = <<"b">>, !.year = <<"2">>,
                       !.tags = <<<<"0", "8", "_stars">>>>, !.addedAt = <<"1">>] }

\* state.sortBy and state.sortOrder
SortFields == {"dateAdded", "title", "year", "rating"}

SortOrders == {"asc", "desc"}

\* state.filterTags: no filter, a tag, the finished list.
Filters ==
    { <<>>, <<<<"x">>>>, <<<<IF variant = "screen" THEN "watched" ELSE "read">>>> }

\* The state renderScreens / renderBooks finds: a collection without
\* duplicates, the filter and the sort settings.
Renderings ==
    { [fn |-> "render", items |-> l, filterTags |-> ft, sortBy |-> sb, sortOrder |-> so] :
          l \in { l \in ListsOf(ListedItems) :
                    \A i, j \in 1..Len(l) : l[i] = l[j] => i = j },
          ft \in Filters, sb \in SortFields, so \in SortOrders }

\* A status change on a tracked item (one with addedAt set), one of the
\* statuses its detail view offers, at a clock reading after its timestamps.
StatusSelections ==
    { [fn |-> "changeListStatus", item |-> q.item, listStatus |-> st, stamp |-> <<"2">>] :
        q \in { x \in StatusQueries : x.item.addedAt # <<>> },
        st \in Statuses }

\* ------------------------------------------------- full reconciliation
\* app.js:1586-1590  getLatestTimestamp on a stored screen (it has no
\* startedAt): the later of the set timestamps, <<>> for null.
LatestOf(screen) ==
    IF StrGreater(screen.finishedAt, screen.addedAt) THEN screen.finishedAt
    ELSE screen.addedAt

RECURSIVE MergeRemoteScreens(_, _)
MergeRemoteScreens(m, remoteScreens) ==
    IF remoteScreens = <<>> THEN m
    ELSE LET r == Head(remoteScreens)
             next == IF ~HasId(m, r.id) THEN Append(m, r)
                     ELSE IF LatestOf(r) # <<>>
                             /\ (LatestOf(Find(m, r.id)) = <<>>
                                 \/ StrGreater(LatestOf(r), LatestOf(Find(m, r.id))))
                          THEN MapSet(m, r)
                     ELSE m
         IN  MergeRemoteScreens(next, Tail(remoteScreens))

\* app.js:1593-1622  mergeScreens on stored screens
mergeStoredScreens(localScreens, remoteScreens) ==
    MergeRemoteScreens(MapOfLocal(<<>>, localScreens), remoteScreens)

\* app.js:1660-1700  the body of a full sync that finds the file: decode,
\* merge, keep the merged list, write its encoding.
Screen_reconcile(local, tsv, t) ==
    LET merged == mergeStoredScreens(local, tsvToScreensText(tsv, t))
    IN  [items |-> merged, tsv |-> screensToTSVText(merged)]

\* part_001:2017-2041  the body of a full sync that finds the file: decode,
\* keep the decoded list, write its encoding when the decoder asks for it.
Book_reconcile(local, tsv, api) ==
    LET result == tsvToBooksText(tsv, api)
    IN  [items |-> result.books,
         tsv |-> IF result.needsReorder THEN booksToTSVText(result.books) ELSE tsv]

\* A collection and a remote table, of the same schema with at most one row
\* or of some other schema, before two full syncs run at the clock readings
\* 1 and 2.
Reconciliations ==
    { [fn |-> "reconcile", items |-> l, tsv |-> EncodeText(r), api |-> v] :
        l \in ListsOf(CleanItems),
        r \in { x \in ListsOf(CleanItems) : Len(x) <= 1 },
        v \in Answers }
      \cup
    { [fn |-> "reconcile", items |-> l, tsv |-> Render(ForeignHeader, <<r>>), api |-> v] :
        l \in ListsOf(CleanItems), r \in ForeignRows, v \in Answers }

FnInputs == StatusChanges \cup StatusQueries \cup Encodings \cup Decodings \cup Renderings
               \cup { i \in StatusSelections : i.listStatus \in Offered(i.item) }
               \cup Reconciliations

\* A fresh install, and one argument for one function.
FnInit ==
    /\ variant \in {"screen", "book"}
    /\ now = 1
    /\ nextGist = 2
    /\ gists = [g \in 1..MaxGists |-> NoDoc]
    /\ items = [c \in Clients |-> <<>>]
    /\ settings = [c \in Clients |-> [gistId |-> 1, apiToken |-> TRUE]]
    /\ isSyncing = [c \in Clients |-> FALSE]
    /\ lastSyncTime = [c \in Clients |-> 0]
    /\ tasks = [c \in Clients |-> [s \in Slots |-> Idle]]
    /\ event = Event("none", {}, "")
    /\ scen = 0
    /\ input \in FnInputs
    /\ op = "none"
    /\ out = <<>>

\* app.js:110-138 / part_001:49-79  setListTimestamps(item, listStatus)
ApplySetListTimestamps ==
    /\ op = "none"
    /\ input.fn = "setListTimestamps"
    /\ op' = "setListTimestamps"
    /\ out' = setListTimestamps(input.item, input.listStatus, input.t)
    /\ UNCHANGED <<sysVars, input>>

\* app.js:75-81 / part_001:25-30  getScreenListStatus / getBookListStatus
ApplyGetListStatus ==
    /\ op = "none"
    /\ input.fn = "getListStatus"
    /\ op' = "getListStatus"
    /\ out' = IF variant = "screen" THEN getScreenListStatus(input.item)
              ELSE getBookListStatus(input.item)
    /\ UNCHANGED <<sysVars, input>>

\* app.js:1739-1759 / part_001:1635-1664  screensToTSV / booksToTSV
ApplyEncode ==
    /\ op = "none"
    /\ input.fn = "encode"
    /\ op' = "encode"
    /\ out' = EncodeText(input.items)
    /\ UNCHANGED <<sysVars, input>>

\* app.js:1762-1797 / part_001:1668-1880  tsvToScreens / tsvToBooks
DecodeText(tsv, t, api) ==
    IF variant = "screen" THEN tsvToScreensText(tsv, t) ELSE tsvToBooksText(tsv, api).books

\* What the decoder returns: the screen decoder an array, the book decoder an
\* object of the array and the needsReorder flag.
DecodeResult(tsv, t, api) ==
    IF variant = "screen" THEN tsvToScreensText(tsv, t) ELSE tsvToBooksText(tsv, api)

\* The items in what the decoder returned.
ItemsOf(result) == IF variant = "screen" THEN result ELSE result.books

ApplyDecode ==
    /\ op = "none"
    /\ input.fn = "decode"
    /\ op' = "decode"
    /\ out' = DecodeResult(input.tsv, input.t, input.api)
    /\ UNCHANGED <<sysVars, input>>

\* app.js:1325-1378 / part_001:1012-1047  renderScreens / renderBooks: the
\* list shown and the collection afterwards
ApplyRender ==
    /\ op = "none"
    /\ input.fn = "render"
    /\ op' = "render"
    /\ out' = IF variant = "screen"
              THEN Screen_render(input.items, input.filterTags, input.sortBy, input.sortOrder)
              ELSE Book_render(input.items, input.filterTags, input.sortBy, input.sortOrder)
    /\ UNCHANGED <<sysVars, input>>

\* app.js:1189-1201 / part_001:815-824  status pill click / changeBookListStatus
ApplyChangeListStatus ==
    /\ op = "none"
    /\ input.fn = "changeListStatus"
    /\ op' = "changeListStatus"
    /\ out' = IF variant = "screen"
              THEN Screen_pillClick(input.item, input.listStatus, input.stamp)
              ELSE changeBookListStatus(input.item, input.listStatus, input.stamp)
    /\ UNCHANGED <<sysVars, input>>

\* app.js:1625-1737 / part_001:1991-2059  syncWithGitHub, a first time
ApplyReconcile ==
    /\ op = "none"
    /\ input.fn = "reconcile"
    /\ op' = "reconcile"
    /\ out' = IF variant = "screen" THEN Screen_reconcile(input.items, input.tsv, 1)
              ELSE Book_reconcile(input.items, input.tsv, input.api)
    /\ UNCHANGED <<sysVars, input>>

\* syncWithGitHub, a second time, on what the first left locally and remotely
ApplyReconcileAgain ==
    /\ op = "reconcile"
    /\ op' = "reconcileAgain"
    /\ out' = [first |-> out.items,
               second |-> IF variant = "screen" THEN Screen_reconcile(out.items, out.tsv, 2).items
                          ELSE Book_reconcile(out.items, out.tsv, input.api).items]
    /\ UNCHANGED <<sysVars, input>>

FnNext ==
    \/ ApplySetListTimestamps
    \/ ApplyGetListStatus
    \/ ApplyEncode
    \/ ApplyDecode
    \/ ApplyRender
    \/ ApplyChangeListStatus
    \/ ApplyReconcile
    \/ ApplyReconcileAgain

FnSpec == FnInit /\ [][FnNext]_vars

\* --------------------------------------------------------- the tags of an item
\* A fresh install: the part of the state the functions below leave alone.
FreshInstall ==
    /\ variant \in {"screen", "book"}
    /\ now = 1
    /\ nextGist = 2
    /\ gists = [g \in 1..MaxGists |-> NoDoc]
    /\ items = [c \in Clients |-> <<>>]
    /\ settings = [c \in Clients |-> [gistId |-> 1, apiToken |-> TRUE]]
    /\ isSyncing = [c \in Clients |-> FALSE]
    /\ lastSyncTime = [c \in Clients |-> 0]
    /\ tasks = [c \in Clients |-> [s \in Slots |-> Idle]]
    /\ event = Event("none", {}, "")
    /\ scen = 0

\* The ratings the stars offer here, and what the user types in the tag input:
\* two plain tags and two tags of the form of a rating.
Ratings == {5, 8}

TypedTags == { <<"x">>, <<"5", "_stars">>, <<"0", "5", "_stars">>, <<"0", "8", "_stars">> }

\* The tags of one tracked item are held in `out`, the last operation in `op`.
TagInit ==
    /\ FreshInstall
    /\ input = <<>>
    /\ op = "none"
    /\ out = <<>>

\* app.js:100-107 updateScreenRating / part_001:827-836 updateBookRating
RateItem(rating) ==
    /\ out' = setRatingTag(out, rating)
    /\ op' = "rate"
    /\ input' = rating
    /\ UNCHANGED sysVars

\* app.js:1278-1291 the tag input / part_001:840-850 addTagToBook
AddTag(tag) ==
    /\ ~\E k \in 1..Len(out) : out[k] = tag
    /\ out' = Append(out, tag)
    /\ op' = "addTag"
    /\ input' = tag
    /\ UNCHANGED sysVars

\* app.js:1262-1270 the remove button of a displayed tag / part_001:853-860
\* removeTagFromBook; rating tags are not displayed (app.js:1005, part_001:1335)
RemoveTag(tag) ==
    /\ \E k \in 1..Len(out) : out[k] = tag
    /\ ~IsRatingTag(tag)
    /\ out' = SelectSeq(out, LAMBDA t : t # tag)
    /\ op' = "removeTag"
    /\ input' = tag
    /\ UNCHANGED sysVars

\* The item goes to the remote table and comes back: app.js:1749, 1782 /
\* part_001:1641, 1730
SyncTags ==
    /\ out' = IF variant = "screen" THEN TagList(Join(out, ","))
              ELSE LET tagsStr == Trim(Join(out, ","))
                   IN  IF tagsStr = <<>> THEN <<>>
                       ELSE SelectSeq(Split(tagsStr, ","), LAMBDA tg : Trim(tg) # <<>>)
    /\ op' = "sync"
    /\ input' = <<>>
    /\ UNCHANGED sysVars

TagNext ==
    \/ \E rating \in Ratings \cup {0} : RateItem(rating)
    \/ \E tag \in TypedTags : AddTag(tag)
    \/ \E tag \in TypedTags : RemoveTag(tag)
    \/ SyncTags

TagSpec == TagInit /\ [][TagNext]_vars

\* ------------------------------------------------------------ properties
\* The encoding of a collection in the running variant.
Encode(its) == IF variant = "screen" THEN screensToTSV(its) ELSE booksToTSV(its)

\* Client c has a GET of its document pending.
FetchPending(c) == \E s \in Slots : tasks[c][s].pc = "fetch"

\* The remote collection R that the pending GET of client c returns: the
\* decoding of the document as the server holds it when it answers.
Fetched(c) ==
    LET g == gists[tasks[c][CHOOSE s \in Slots : tasks[c][s].pc = "fetch"].gid]
    IN  IF variant = "screen"
        THEN (IF g.file THEN tsvToScreens(g.rows) ELSE <<>>)
        ELSE tsvToBooks(g.rows)

\* The step of a full reconciliation in which client c's GET returned the
\* document and the client installed a collection.
InstallsFetched(c) ==
    /\ FetchPending(c)
    /\ event'.c = c
    /\ {"installed", "found"} \subseteq event'.tags

\* C1 (merge deletion propagation): when a full reconciliation installs a
\* collection, no local item X with X.addedAt <= lastSyncTime that the remote
\* collection R lacks is in the installed collection.  Items are matched by
\* the key the table stores.
DeletionPropagates ==
    [][\A c \in Clients : InstallsFetched(c) =>
          \A i \in 1..Len(items[c]) :
             (/\ items[c][i].addedAt <= lastSyncTime[c]
              /\ ~HasKey(Fetched(c), items[c][i].key))
                => ~HasKey(items'[c], items[c][i].key)]_vars

\* C2 (new-item preservation): when a full reconciliation installs a
\* collection, every local item Y with Y.addedAt > lastSyncTime that the
\* remote collection R lacks is in the installed collection.
NewItemsPreserved ==
    [][\A c \in Clients : InstallsFetched(c) =>
          \A i \in 1..Len(items[c]) :
             (/\ items[c][i].addedAt > lastSyncTime[c]
              /\ ~HasKey(Fetched(c), items[c][i].key))
                => HasKey(items'[c], items[c][i].key)]_vars

\* C3 (conflict resolution): when an id is on both sides and the two copies'
\* latest timestamps differ, the installed collection holds for that item
\* exactly the copy with the later latest timestamp, field for field.
LaterCopyWins ==
    [][\A c \in Clients : InstallsFetched(c) =>
          \A i \in 1..Len(items[c]), j \in 1..Len(Fetched(c)) :
             LET x == items[c][i]
                 y == Fetched(c)[j]
                 later == IF getLatestTimestamp(x) > getLatestTimestamp(y) THEN x ELSE y
             IN  (x.id = y.id /\ getLatestTimestamp(x) # getLatestTimestamp(y)) =>
                    /\ \E m \in 1..Len(items'[c]) : items'[c][m] = later
                    /\ \A m \in 1..Len(items'[c]) :
                          items'[c][m].id = x.id => items'[c][m] = later]_vars

\* C4 (two-client deletion): once A has deleted Z and A's write has reached
\* the remote store, and B (which synced at or after Z.addedAt) has then
\* completed a full reconciliation, Z is neither in B's collection nor in the
\* remote document.
DeletedStaysDeleted ==
    scen = 4 =>
        /\ ~HasKey(items["B"], SyncedItem.key)
        /\ ~HasKey(RemoteRows("B"), SyncedItem.key)

\* C5 (post-mutation sync is push-only): the sync operation that a local
\* mutation starts sends no GET: it is never waiting for a fetch.
MutationSyncIsPushOnly ==
    \A c \in Clients :
        (event.c = c /\ {"mutation", "started"} \subseteq event.tags) =>
            ~FetchPending(c)

\* C6 (mutual exclusion): a client has at most one sync operation in flight,
\* the flag is set while it is, and a user event that arrives while the flag
\* is set starts no request and queues nothing: no sync task is created.
MutualExclusion ==
    /\ [](\A c \in Clients : InFlight(c) <= 1 /\ (InFlight(c) = 1 => isSyncing[c]))
    /\ [][\A c \in Clients :
            (isSyncing[c] /\ event'.c = c /\ event'.tags \cap {"mutation", "request"} # {})
                => /\ "started" \notin event'.tags
                   /\ \A s \in Slots : tasks'[c][s].kind \in {"sync", "push"}
                                            => tasks'[c][s] = tasks[c][s]]_vars

\* A sync request arrived while a sync operation was in flight and was dropped.
RequestDroppedWhileSyncing ==
    /\ {"request", "dropped"} \subseteq event.tags
    /\ isSyncing[event.c]
    /\ InFlight(event.c) = 1

\* C7 (the flag is released): every sync operation that starts ends, on
\* success and on failure, with isSyncing false again, and a request made
\* while the flag is clear is not dropped.
SyncEnds ==
    /\ \A c \in Clients : isSyncing[c] ~> ~isSyncing[c]
    /\ [][\A c \in Clients :
            (~isSyncing[c] /\ event'.c = c) => "dropped" \notin event'.tags]_vars

\* A sync operation failed and the flag is clear again.
FailedSyncReleasedFlag ==
    /\ {"fail", "sync"} \subseteq event.tags
    /\ ~isSyncing[event.c]
    /\ InFlight(event.c) = 0

\* C8 (lastSyncTime): lastSyncTime of a client changes only in the step that
\* ends one of its full reconciliations successfully; a push-only operation
\* and a failed operation leave it as it was.
LastSyncTimeOnlyOnSuccess ==
    [][\A c \in Clients : lastSyncTime'[c] # lastSyncTime[c] =>
          /\ event'.c = c
          /\ {"ok", "sync"} \subseteq event'.tags
          /\ "fail" \notin event'.tags
          /\ \E s \in Slots : tasks[c][s].kind = "sync" /\ tasks'[c][s].pc = "idle"
          /\ lastSyncTime'[c] = now]_vars

\* A full reconciliation has just succeeded, later than the initial clock
\* reading, and lastSyncTime is the time of its end.
LastSyncTimeMoved ==
    /\ {"ok", "sync"} \subseteq event.tags
    /\ lastSyncTime[event.c] = now
    /\ now > 1

\* C9 (write-back): a full reconciliation that succeeds has written the
\* encoded collection, and right after it the remote document is the encoding
\* of the client's collection.
SuccessfulSyncWrote ==
    \A c \in Clients :
        (event.c = c /\ {"ok", "sync"} \subseteq event.tags) =>
            /\ "wrote" \in event.tags
            /\ RemoteRows(c) = Encode(items[c])

\* C10 (missing document): when the GET of a full reconciliation returns
\* not-found the operation goes on: the collection is kept as it is and a POST
\* of its encoding is sent; and when a POST succeeds the id of the new
\* document is the client's document id.
NotFoundCreates ==
    [][\A c \in Clients :
          /\ (FetchPending(c) /\ event'.c = c /\ "notfound" \in event'.tags) =>
                /\ "fail" \notin event'.tags
                /\ items'[c] = items[c]
                /\ \E s \in Slots :
                      /\ tasks'[c][s].pc \in {"write", "create"}
                      /\ tasks'[c][s].gid = NoGist
                      /\ tasks'[c][s].body = Encode(items[c])
          /\ (event'.c = c /\ "created" \in event'.tags) =>
                /\ settings'[c].gistId = nextGist
                /\ gists'[nextGist].exists]_vars

\* C11 (silent background failure): when a sync operation that the user did
\* not ask for by pressing Sync Now (a startup, focus or post-mutation sync)
\* fails, the step that ends it shows no status message.
BackgroundFailureIsSilent ==
    [][\A c \in Clients, s \in Slots :
          (/\ tasks[c][s].kind \in {"sync", "push"}
           /\ ~tasks[c][s].manual
           /\ tasks'[c][s].pc = "idle"
           /\ event'.c = c
           /\ "fail" \in event'.tags)
              => event'.shown = ""]_vars

\* C12 (no lost mutation): when an add handler appended its item while a sync
\* operation of the same client was suspended at a network call, and that
\* operation then resumes, the collection still holds the added item (a copy
\* with the same key).
MutationSurvivesSync ==
    [][\A c \in Clients :
          (/\ event.c = c
           /\ {"mutation", "add", "dropped"} \subseteq event.tags
           /\ event'.c = c
           /\ \E s \in Slots : /\ tasks[c][s].kind \in {"sync", "push"}
                               /\ tasks'[c][s] # tasks[c][s])
              => HasKey(items'[c], items[c][Len(items[c])].key)]_vars

\* C13 (id uniqueness): in every reachable state no two items of a client's
\* collection share an id.
IdsAreUnique ==
    \A c \in Clients :
        \A i, j \in 1..Len(items[c]) : items[c][i].id = items[c][j].id => i = j

\* Every pair of set timestamps of an item is in order.
TimestampsOrdered(it) ==
    /\ (it.addedAt # 0 /\ it.startedAt # 0) => it.addedAt <= it.startedAt
    /\ (it.startedAt # 0 /\ it.finishedAt # 0) => it.startedAt <= it.finishedAt
    /\ (it.addedAt # 0 /\ it.finishedAt # 0) => it.addedAt <= it.finishedAt

\* C14: after a status-setting mutation, whatever timestamps the item carried
\* before, every pair of set timestamps is in order: addedAt <= startedAt <=
\* finishedAt.
MonotonicRepair ==
    op = "setListTimestamps" => TimestampsOrdered(out)

\* The marker of progress: the episode code of a series, the startedAt of a book.
InProgress(it) ==
    IF variant = "screen" THEN it.type = <<"tv">> /\ it.lastWatchedEpisode # <<>>
    ELSE it.startedAt # <<>>

\* The names of the terminal and of the in-progress status.
Terminal == IF variant = "screen" THEN "watched" ELSE "read"

Progressing == IF variant = "screen" THEN "watching" ELSE "reading"

\* C16: the status of an item is the terminal one when finishedAt is set;
\* otherwise the in-progress one when the marker of progress is set (for a
\* screen only when it is a series); otherwise the pending one when addedAt is
\* set; otherwise none.
StatusDerivation ==
    op = "getListStatus" =>
        LET it == input.item
        IN  /\ it.finishedAt # <<>> => out = Terminal
            /\ (it.finishedAt = <<>> /\ InProgress(it)) => out = Progressing
            /\ (it.finishedAt = <<>> /\ ~InProgress(it) /\ it.addedAt # <<>>) => out = Pending
            /\ (it.finishedAt = <<>> /\ ~InProgress(it) /\ it.addedAt = <<>>) => out = "none"

\* A film that carries an episode code and no finishedAt was asked for its
\* status and is on the pending list.
FilmWithEpisodeIsPending ==
    /\ op = "getListStatus"
    /\ variant = "screen"
    /\ input.item.type = <<"movie">>
    /\ input.item.lastWatchedEpisode # <<>>
    /\ input.item.finishedAt = <<>>
    /\ input.item.addedAt # <<>>
    /\ out = "to_watch"

\* a <= b on two timestamps that are both set.
NotAfter(a, b) == (a # <<>> /\ b # <<>>) => ~StrGreater(a, b)

\* Every pair of set timestamps of a decoded item is in order.
DecodedInOrder(it) ==
    IF variant = "screen" THEN NotAfter(it.addedAt, it.finishedAt)
    ELSE /\ NotAfter(it.addedAt, it.startedAt)
         /\ NotAfter(it.startedAt, it.finishedAt)
         /\ NotAfter(it.addedAt, it.finishedAt)

\* The table decoded has its columns in the canonical order.
CanonicalTable == input.src.kind = "encoded" \/ input.src.order = Canonical

\* C15: whatever timestamps a remote row carries, the item decoded from it has
\* every pair of set timestamps in order (rows of a table in canonical column
\* order are enough to tell).
DecodeRepairsOrder ==
    (op = "decode" /\ CanonicalTable)
        => \A i \in 1..Len(ItemsOf(out)) : DecodedInOrder(ItemsOf(out)[i])

\* The external key of an item: the tmdbId of a screen, the ISBN of a book.
ExternalKey(it) == IF variant = "screen" THEN it.tmdbId ELSE it.isbn

\* The items of a list, as a set.
Members(l) == { l[i] : i \in 1..Len(l) }

\* C17: decoding the table that encode made of a list of items, none of whose
\* fields holds a tab, a newline or a quote and each of which has its external
\* key, gives the same set of items: same ids, same field values.
RoundTrip ==
    (/\ op = "decode"
     /\ input.src.kind = "encoded"
     /\ \A it \in Members(input.src.items) : ExternalKey(it) # <<>>)
        => Members(ItemsOf(out)) = Members(input.src.items)

\* The lines of a table that follow the header and are not empty.
RowsOf(tsv) ==
    LET lines == Split(tsv, "NL")
    IN  SelectSeq(Tail(lines), LAMBDA line : line # <<>>)

\* C18: no field of a row that encode emits holds a raw tab, newline, carriage
\* return or double quote, whatever the column: the table of a list of items
\* that all have the external key has one line per item, every line has as
\* many fields as the header, and no carriage return or double quote occurs.
EncodedFieldsAreClean ==
    (/\ op = "encode"
     /\ \A it \in Members(input.items) : ExternalKey(it) # <<>>)
        => /\ \A k \in 1..Len(out) : out[k] \notin {"CR", "QUOTE"}
           /\ Len(RowsOf(out)) = Len(input.items)
           /\ \A i \in 1..Len(RowsOf(out)) :
                  Len(Split(RowsOf(out)[i], "TAB")) = Len(Canonical)

\* The column of the external key.
KeyColumn ==
    CHOOSE c \in 1..Len(Canonical) :
        Canonical[c] = IF variant = "screen" THEN "tmdbID" ELSE "isbn"

\* The items of a list that have the external key.
Keyed(l) == SelectSeq(l, LAMBDA it : ExternalKey(it) # <<>>)

\* C19: the table encode makes of a list of items (none of whose fields holds
\* a reserved character) has one row for each item that has the external key,
\* carrying that key, and no row for an item that lacks it.
KeylessItemsStayLocal ==
    (op = "encode" /\ Members(input.items) \subseteq CleanItems)
        => /\ Len(RowsOf(out)) = Len(Keyed(input.items))
           /\ \A i \in 1..Len(RowsOf(out)) :
                  Split(RowsOf(out)[i], "TAB")[KeyColumn] = ExternalKey(Keyed(input.items)[i])

\* C20: decoding a table whose columns are permuted, in the header and in
\* every row alike, gives the same items as decoding the same rows in the
\* canonical column order.
ColumnOrderIsIrrelevant ==
    (op = "decode" /\ input.src.kind = "written")
        => ItemsOf(out) = DecodeText(Render(Canonical, input.src.rows), input.t, input.api)

\* The header of the table decoded.
HeaderOf(src) == IF src.kind = "encoded" THEN Canonical ELSE src.order

\* A text field of a row of the table decoded holds a double quote.
HasQuote(src) ==
    /\ src.kind # "encoded"
    /\ \E i \in 1..Len(src.rows) : \E col \in {"title", "author", "description"} :
          /\ col \in DOMAIN src.rows[i]
          /\ \E k \in 1..Len(src.rows[i][col]) : src.rows[i][col][k] = "QUOTE"

FlaggedSyncWritesBack ==
    [][\A c \in Clients, s \in Slots :
          (/\ variant = "book"
           /\ tasks[c][s].pc = "fetch"
           /\ tasks'[c][s] # tasks[c][s]
           /\ event'.c = c
           /\ "installed" \in event'.tags
           /\ needsReorder(gists[tasks[c][s].gid]))
             => /\ tasks'[c][s].pc = "write"
                /\ tasks'[c][s].body = booksToTSV(items'[c])]_vars

\* The list tags in the tags column of a row, in order.
ListTagsOf(row) == SelectSeq(Split(row.tags, ","), LAMBDA tg : tg \in ListTags)

AtMostOneRatingTag ==
    \A j, k \in 1..Len(out) : (IsRatingTag(out[j]) /\ IsRatingTag(out[k])) => j = k

\* The sort key of a is above that of b.
KeyAbove(a, b, sortBy) ==
    CASE sortBy = "title" -> StrBefore(b.title, a.title)
      [] sortBy = "year" -> NumOf(a.year) > NumOf(b.year)
      [] sortBy = "rating" -> getRatingFromTags(a.tags) > getRatingFromTags(b.tags)
      [] OTHER -> StrBefore(b.addedAt, a.addedAt)

\* C24: for every sort field the list shown has its keys non-decreasing when
\* the order is ascending and non-increasing when it is descending, and items
\* of equal key stay in the order the collection has them.
SortDirection ==
    op = "render" =>
        \A i, j \in 1..Len(out.shown) :
            i < j =>
                LET a == out.shown[i]
                    b == out.shown[j]
                IN  /\ input.sortOrder = "asc" => ~KeyAbove(a, b, input.sortBy)
                    /\ input.sortOrder = "desc" => ~KeyAbove(b, a, input.sortBy)
                    /\ (~KeyAbove(a, b, input.sortBy) /\ ~KeyAbove(b, a, input.sortBy))
                          => IndexOfId(input.items, a.id, 1) < IndexOfId(input.items, b.id, 1)

\* C25: rendering the list, with or without a filter, leaves the collection
\* as it was, the order of its items included.
RenderHasNoSideEffect ==
    op = "render" => out.items = input.items

\* C26 (an edit that sets no timestamp): once A has changed the rating of Z
\* and A's write has reached the remote store, and B, holding Z unmodified,
\* has then completed a full reconciliation, B holds A's version of Z and the
\* remote document still has it.
EditPropagates ==
    scen = 8 =>
        /\ \E i \in 1..Len(items["B"]) :
              /\ items["B"][i].key = SyncedItem.key
              /\ items["B"][i].rated = items["A"][1].rated
        /\ \A i \in 1..Len(RemoteRows("B")) :
              RemoteRows("B")[i].key = SyncedItem.key
                 => RemoteRows("B")[i].rated = items["A"][1].rated

\* C27 (convergence at quiescence): when a sync of a client has just
\* completed with success and nothing of that client is in flight any more,
\* the remote document is the encoding of the client's collection.
ConvergedAtQuiescence ==
    \A c \in Clients :
        (/\ event.c = c
         /\ "ok" \in event.tags
         /\ settings[c].apiToken
         /\ settings[c].gistId # NoGist
         /\ \A s \in Slots : tasks[c][s] = Idle)
            => RemoteRows(c) = Encode(items[c])

\* The status the list views derive for a record.
DerivedStatus(it) ==
    IF variant = "screen" THEN getScreenListStatus(it) ELSE getBookListStatus(it)

\* C29 (status set-then-derive): after a status change sets an offered status
\* on a tracked item, the status derived for the item is that status.
SetThenDerive ==
    op = "changeListStatus" => DerivedStatus(out) = input.listStatus

\* The ids of a collection, in order.
IdList(l) == [i \in 1..Len(l) |-> l[i].id]

\* C28 (idempotent reconciliation): a second full sync that follows a first
\* with nothing changed in between leaves the same ids and the same number of
\* items as the first did.
ReconcileIsIdempotent ==
    op = "reconcileAgain" =>
        /\ Len(out.second) = Len(out.first)
        /\ IdList(out.second) = IdList(out.first)

\* The table has a line below its header that is not blank.
HasRows(tsv) ==
    LET lines == Split(tsv, "NL")
    IN  \E i \in 2..Len(lines) : Trim(lines[i]) # <<>>

\* Decode obtains no item from the table although it has rows.
Undecodable(tsv, api) == HasRows(tsv) /\ ItemsOf(DecodeResult(tsv, 1, api)) = <<>>

\* C30 (unparseable remote content never wipes data): a full sync against a
\* table from which decode obtains no item leaves a collection that was not
\* empty not empty, and does not write a header-only table.
UndecodableRemoteKeepsData ==
    (op = "reconcile" /\ input.items # <<>> /\ Undecodable(input.tsv, input.api))
        => /\ out.items # <<>>
           /\ out.tsv # EncodeText(<<>>)

====
